---- MODULE Spec2Model ----
(***************************************************************************)
(* Model of src/src/g2_output.py: the G2Output session controller, its     *)
(* asyncio run loop and the three content channels (notification,          *)
(* teleprompter, Even-AI).                                                 *)
(*                                                                         *)
(* The run loop is a set of coroutine tasks.  A task runs from one await   *)
(* to the next as one atomic step (asyncio is cooperative).  A coroutine   *)
(* marshaled onto the loop starts before any coroutine marshaled later and *)
(* before any coroutine suspended later resumes.  A frame counts as        *)
(* written when write_gatt_char is called on an open client; a write on a  *)
(* client that is not connected raises.                                    *)
(*                                                                         *)
(* Time is not modelled, only the order it forces.  A suspended task waits *)
(* for a write on a client to return (if it made one) and then for a sleep *)
(* of d milliseconds (if it sleeps).  Writes on one client return in the   *)
(* order they were made and the loop runs its timers by deadline, so a     *)
(* task that was suspended earlier resumes first when its sleep is not     *)
(* longer and it waits for no write that the later task does not wait      *)
(* behind.  Everything else (when a scan, a connect, a disconnect or a     *)
(* write returns) is decided by the transport.                             *)
(*                                                                         *)
(* The functions of the module that build bytes (checksums, varints,       *)
(* packets, teleprompter pages) are operators on sequences of bytes or     *)
(* characters; SpecCodec calls each of them once on any of its inputs and  *)
(* keeps the call and what it returned.  Numbers of 32 bits are held as    *)
(* two halves of 16 bits.  SpecStorage is src/src/exocortex/storage.py:    *)
(* the points of the vector store, the rows of the metadata table, and the *)
(* calls of store_memory and get_memory_by_id made on them.                *)
(***************************************************************************)
EXTENDS Integers, Sequences, FiniteSets, TLC

(* ------------------------------ bounds -------------------------------- *)
\* sends that update() schedules
MaxUpdates == 2
\* calls of connect(), disconnect() and stop() made by the callers
MaxCalls == 1
\* sends in flight at once in the runs with overlapping sends
MaxOverlap == 3
\* sends that the callers let be in flight on the run loop at once
MaxInFlight == 1
\* DATA chunks of the longest notification document
MaxChunks == 2
\* sends of the long teleprompter and Even-AI runs
LongUpdates == 250
MaxText == 4
MaxChars == 3
MaxLines == 3
MaxOps == 3
\* bytes of the byte strings given to the checksum functions
MaxData == 3

(* ------------------------- program constants -------------------------- *)
SEQ_INIT == 8
MSG_ID_INIT == 20
U8_MAX == 255
AUTH_PACKETS == 7
PAGES_SENT == 3
MIN_PAGES == 14
\* the asyncio.sleep calls, in milliseconds
SLEEP_AUTH == 100
SLEEP_SETTLE == 500
SLEEP_CONFIG == 50
SLEEP_INIT == 100
SLEEP_PAGE == 20
SLEEP_ENTER == 50
SLEEP_FILE_CHECK == 300
SLEEP_START == 100
SLEEP_DATA == 50
SLEEP_TRANSFER == 300
SLEEP_END == 200

VARIABLES
    config,                    \* G2Config: [mode, use_right, auto_connect]
    left_client,               \* self._left_client: 0 is None, else a client id
    right_client,              \* self._right_client
    connected,                 \* self._connected
    seq,                       \* self._seq
    msg_id,                    \* self._msg_id
    teleprompter_initialized,  \* self._teleprompter_initialized
    evenai_initialized,        \* self._evenai_initialized
    loop,                      \* self._loop: "none", "running", "stopping", "stopped",
                               \* "crashed" (its thread died in run_until_complete)
    clients,                   \* the BleakClient objects created so far
    tasks,                     \* the coroutines on the run loop
    waitq,                     \* the ids of the tasks, in the order they were
                               \* marshaled onto the loop or last suspended
    nextId,                    \* marshal order: id of the next task
    budget,                    \* calls the callers may still make; whether the
                               \* transport is faulty and the clock runs
    lastFrame,                 \* the frame written last
    prevCounted,               \* the last teleprompter/Even-AI frame before it
    stats,                     \* what has been written and done so far
    ended,                     \* how the coroutines and stop() have ended
    call,                      \* a call of one of the module's functions: what
                               \* it was given and what it returned
    qdrant,                    \* QdrantStorage.qdrant: the points of the collection
    db,                        \* QdrantStorage.db: the rows of table memories
    history                    \* the calls made on the storage, with their results

handles == <<left_client, right_client>>
counters == <<seq, msg_id, teleprompter_initialized, evenai_initialized>>
wire == <<lastFrame, prevCounted, stats>>
vars == <<config, left_client, right_client, connected, seq, msg_id,
          teleprompter_initialized, evenai_initialized, loop, clients, tasks,
          waitq, nextId, budget, lastFrame, prevCounted, stats, ended,
          call, qdrant, db, history>>

\* the state of the G2Output session, and what lies beside it
session == <<config, left_client, right_client, connected, seq, msg_id,
             teleprompter_initialized, evenai_initialized, loop, clients, tasks,
             waitq, nextId, budget, lastFrame, prevCounted, stats, ended>>
storage == <<qdrant, db, history>>
aside == <<call, storage>>

\* one of the module's functions has been called and has returned
Called == call.fn # "none"

Modes == {"notification", "teleprompter", "evenai"}
SingleEye == config.mode \in {"teleprompter", "evenai"}

Max(a, b) == IF a >= b THEN a ELSE b

(* ------------------------------ frames -------------------------------- *)
NoFrame == [kind |-> "none", seq |-> 0, msgid |-> 0, client |-> 0, upd |-> 0]
Frame(k, s, m, c, u) == [kind |-> k, seq |-> s, msgid |-> m, client |-> c, upd |-> u]

CountedKinds == {"CONFIG", "INIT", "PAGE", "SYNC", "CTRL_ENTER", "REPLY"}
TextKinds == {"REPLY", "PAGE", "DATA"}
ContentKinds == CountedKinds \cup {"FILE_CHECK", "START", "DATA", "END", "HEARTBEAT"}

\* bytes([0xAA, 0x21, seq, ...]) raises ValueError for a value outside 0..255
build_packet_ok(s) == s \in 0..U8_MAX

\* json_bytes[i:i+234] for i in range(0, len(json_bytes), 234): the chunks of a
\* JSON document of len bytes
CHUNK_SIZE == 234
Chunks(len) == (len + CHUNK_SIZE - 1) \div CHUNK_SIZE

\* the lengths of the JSON documents of update(): under one chunk, MaxChunks
\* full chunks, and one byte more than 255 chunks hold
JsonLengths ==
    {CHUNK_SIZE - 1, MaxChunks * CHUNK_SIZE, U8_MAX * CHUNK_SIZE + 1}

\* len(pages) of format_teleprompter_text: the pages are padded to 14
format_teleprompter_pages == MIN_PAGES
PagesToSend == IF PAGES_SENT < format_teleprompter_pages
               THEN PAGES_SENT ELSE format_teleprompter_pages

IsOpen(c) == c # 0 /\ clients[c].open

\* whether an awaited BLE operation (connect, start_notify, write_gatt_char,
\* disconnect) throws: it may whenever the transport is faulty
Throws == IF budget.faulty THEN BOOLEAN ELSE {FALSE}

\* the history kept of one write_gatt_char on client c
Emit(f) ==
    /\ lastFrame' = f
    /\ prevCounted' = IF lastFrame.kind \in CountedKinds THEN lastFrame ELSE prevCounted
    /\ stats' = [stats EXCEPT
           !.nCtrl = @ + (IF f.kind = "CTRL_ENTER" THEN 1 ELSE 0),
           !.nReply = @ + (IF f.kind = "REPLY" THEN 1 ELSE 0),
           !.textHigh = IF f.kind \in TextKinds THEN Max(@, f.upd) ELSE @]

\* what the device has seen on client c after frame f
Received(f) ==
    [clients EXCEPT ![f.client] =
        [@ EXCEPT !.auth = IF f.kind = "AUTH" /\ f.seq = @ + 1 THEN f.seq ELSE @,
                  !.entered = @ \/ f.kind = "CTRL_ENTER"]]

(* ------------------------------ tasks --------------------------------- *)
\* client: the client of the await in progress; i, n: loop index and length;
\* out: the frames the task has written; stop: stop() waits for the result;
\* found: the eyes the scan of connect() found; timed, wc, wd: what the task waits
\* for, the return of a write on client wc (0: none) and then a sleep of wd ms
\* when timed, else an operation whose duration the transport decides
Task(id, kind) ==
    [id |-> id, kind |-> kind, pc |-> "new", client |-> 0, i |-> 0, n |-> 0,
     out |-> <<>>, stop |-> FALSE, timed |-> FALSE, wc |-> 0, wd |-> 0,
     found |-> {}, main |-> FALSE, len |-> 0, pkts |-> <<>>]

Wait(t, c, d) == [t EXCEPT !.timed = TRUE, !.wc = c, !.wd = d]
Untimed(t) == [t EXCEPT !.timed = FALSE, !.wc = 0, !.wd = 0]

SendKinds == {"evenai", "teleprompter", "notification"}
Sends == {t \in tasks : t.kind \in SendKinds}

LoopRuns == loop \in {"running", "stopping"}

Without(q, id) == SelectSeq(q, LAMBDA x : x # id)
Position(id) == CHOOSE k \in 1..Len(waitq) : waitq[k] = id

\* u runs before t.  A task that was marshaled onto the loop and has not
\* started runs before every task marshaled or suspended after that; a task u
\* suspended before t resumes before t when it sleeps no longer than t and
\* the write u waits for, if any, returns before the write t waits for
Blocked(t) ==
    \E u \in tasks :
        /\ u.id # t.id
        /\ Position(u.id) < Position(t.id)
        /\ \/ u.pc = "new"
           \/ /\ t.pc # "new" /\ t.timed
              /\ u.timed
              /\ u.wd <= t.wd
              /\ (u.wc = 0 \/ u.wc = t.wc)

\* call_soon_threadsafe: callbacks run first-in first-out
FirstNew(t) ==
    /\ t.pc = "new"
    /\ \A u \in tasks : u.pc = "new" => t.id <= u.id

Runs(t) == LoopRuns /\ t \in tasks /\ ~Blocked(t)

\* task t is suspended again, as u
Replace(t, u) ==
    /\ tasks' = (tasks \ {t}) \cup {u}
    /\ waitq' = Append(Without(waitq, t.id), t.id)
    /\ UNCHANGED ended

\* the end of a coroutine, or of stop(): how is "return" (None), "True",
\* "False", "raise" (an exception of the transport) or "ValueError"
Ended(t, kind, how) ==
    [id |-> t.id, kind |-> kind, pc |-> t.pc, how |-> how, stop |-> t.stop,
     found |-> t.found, n |-> t.n, len |-> t.len, out |-> t.out]

\* task t returns or raises in the state u of its frame; stop() gets the
\* result it waits for
EndsIn(t, u, how) ==
    /\ tasks' = tasks \ {t}
    /\ waitq' = Without(waitq, t.id)
    /\ ended' = ended \cup {Ended(u, t.kind, how)}
                      \cup (IF t.stop THEN {Ended(u, "stop", how)} ELSE {})

Ends(t, how) == EndsIn(t, t, how)

\* the loop after coroutine t raised: run_until_complete(self.connect())
\* re-raises in the loop's thread, which ends before run_forever()
Raised(t) == IF t.main THEN "crashed" ELSE loop

\* run_coroutine_threadsafe / run_until_complete
Schedule(kind) ==
    /\ tasks' = tasks \cup {Task(nextId, kind)}
    /\ nextId' = nextId + 1
    /\ waitq' = Append(waitq, nextId)
    /\ UNCHANGED ended

(* ------------------------------- Init --------------------------------- *)
\* no function has been called
NoCall == [fn |-> "none", arg |-> <<>>, out |-> <<>>]

InitSelf ==
    /\ left_client = 0
    /\ right_client = 0
    /\ connected = FALSE
    /\ loop = "none"
    /\ seq = SEQ_INIT
    /\ msg_id = MSG_ID_INIT
    /\ teleprompter_initialized = FALSE
    /\ evenai_initialized = FALSE
    /\ clients = <<>>
    /\ tasks = {}
    /\ waitq = <<>>
    /\ nextId = 1
    /\ lastFrame = NoFrame
    /\ prevCounted = NoFrame
    /\ stats = [nCtrl |-> 0, nReply |-> 0, nSched |-> 0, textHigh |-> 0,
                discDone |-> FALSE]
    /\ ended = {}
    /\ call = NoCall
    /\ qdrant = {}
    /\ db = {}
    /\ history = <<>>

Budget(updates, calls, connects, disconnects, stops, inflight) ==
    [updates |-> updates, calls |-> calls, connects |-> connects,
     disconnects |-> disconnects, stops |-> stops, inflight |-> inflight,
     faulty |-> FALSE, clock |-> FALSE]

\* any configuration; one call of connect(), disconnect() or stop() at any
\* time, sends one at a time
Init ==
    /\ InitSelf
    /\ config \in [mode : Modes, use_right : BOOLEAN, auto_connect : BOOLEAN]
    /\ budget = Budget(MaxUpdates, MaxCalls, MaxCalls, MaxCalls, MaxCalls, MaxInFlight)

(* ------------------------ the callers' threads ------------------------ *)
\* start(): the loop's thread is created and runs connect() when configured
start ==
    /\ loop = "none"
    /\ loop' = "running"
    /\ IF config.auto_connect
       THEN /\ tasks' = tasks \cup {[Task(nextId, "connect") EXCEPT !.main = TRUE]}
            /\ nextId' = nextId + 1
            /\ waitq' = Append(waitq, nextId)
            /\ UNCHANGED ended
       ELSE UNCHANGED <<tasks, waitq, nextId, ended>>
    /\ UNCHANGED <<config, aside, handles, connected, counters, clients, budget, wire>>

\* a caller marshals connect() onto the run loop
connect_call ==
    /\ loop = "running"
    /\ budget.calls > 0 /\ budget.connects > 0
    /\ budget' = [budget EXCEPT !.calls = @ - 1, !.connects = @ - 1]
    /\ Schedule("connect")
    /\ UNCHANGED <<config, aside, handles, connected, counters, loop, clients, wire>>

\* a caller marshals disconnect() onto the run loop
disconnect_call ==
    /\ loop = "running"
    /\ budget.calls > 0 /\ budget.disconnects > 0
    /\ budget' = [budget EXCEPT !.calls = @ - 1, !.disconnects = @ - 1]
    /\ Schedule("disconnect")
    /\ UNCHANGED <<config, aside, handles, connected, counters, loop, clients, wire>>

\* update() waiting for the result of the send it schedules, as stop() does
\* for disconnect()
update_waits ==
    /\ budget.updates > 0
    /\ Cardinality(Sends) < budget.inflight
    /\ IF connected /\ loop # "none"
       THEN /\ budget' = [budget EXCEPT !.updates = @ - 1]
            /\ \E len \in JsonLengths :
                 tasks' = tasks \cup
                     {[Task(nextId, config.mode) EXCEPT
                          !.n = IF config.mode = "notification" THEN Chunks(len) ELSE 0,
                          !.len = IF config.mode = "notification" THEN len ELSE 0,
                          !.stop = TRUE]}
            /\ nextId' = nextId + 1
            /\ waitq' = Append(waitq, nextId)
            /\ stats' = [stats EXCEPT !.nSched = @ + 1]
       ELSE UNCHANGED <<tasks, waitq, nextId, stats, budget>>
    /\ UNCHANGED <<config, aside, handles, connected, counters, loop, clients,
                   lastFrame, prevCounted, ended>>

\* update() taking the sequence number of the send on the caller's thread
update_counts ==
    /\ budget.updates > 0
    /\ Cardinality(Sends) < budget.inflight
    /\ IF connected /\ loop # "none"
       THEN /\ budget' = [budget EXCEPT !.updates = @ - 1]
            /\ \E len \in JsonLengths :
                 tasks' = tasks \cup
                     {[Task(nextId, config.mode) EXCEPT
                          !.n = IF config.mode = "notification" THEN Chunks(len) ELSE 0,
                          !.len = IF config.mode = "notification" THEN len ELSE 0]}
            /\ nextId' = nextId + 1
            /\ waitq' = Append(waitq, nextId)
            /\ stats' = [stats EXCEPT !.nSched = @ + 1]
       ELSE UNCHANGED <<tasks, waitq, nextId, stats, budget>>
    /\ seq' = IF connected /\ loop # "none" THEN seq + 1 ELSE seq
    /\ UNCHANGED <<config, aside, handles, connected, msg_id, teleprompter_initialized,
                   evenai_initialized, loop, clients, lastFrame, prevCounted,
                   ended>>

\* update() without the check of _connected at its head
update_unchecked ==
    /\ budget.updates > 0
    /\ Cardinality(Sends) < budget.inflight
    /\ IF loop # "none"
       THEN /\ budget' = [budget EXCEPT !.updates = @ - 1]
            /\ \E len \in JsonLengths :
                 tasks' = tasks \cup
                     {[Task(nextId, config.mode) EXCEPT
                          !.n = IF config.mode = "notification" THEN Chunks(len) ELSE 0,
                          !.len = IF config.mode = "notification" THEN len ELSE 0]}
            /\ nextId' = nextId + 1
            /\ waitq' = Append(waitq, nextId)
            /\ stats' = [stats EXCEPT !.nSched = @ + 1]
       ELSE UNCHANGED <<tasks, waitq, nextId, stats, budget>>
    /\ UNCHANGED <<config, aside, handles, connected, counters, loop, clients,
                   lastFrame, prevCounted, ended>>

\* update(): the check of _connected and of the loop, then
\* run_coroutine_threadsafe of the send of the configured mode; the budget
\* counts the sends that are scheduled
update ==
    /\ budget.updates > 0
    /\ Cardinality(Sends) < budget.inflight
    /\ IF connected /\ loop # "none"
       THEN /\ budget' = [budget EXCEPT !.updates = @ - 1]
            /\ \E len \in JsonLengths :
                 tasks' = tasks \cup
                     {[Task(nextId, config.mode) EXCEPT
                          !.n = IF config.mode = "notification" THEN Chunks(len) ELSE 0,
                          !.len = IF config.mode = "notification" THEN len ELSE 0]}
            /\ nextId' = nextId + 1
            /\ waitq' = Append(waitq, nextId)
            /\ stats' = [stats EXCEPT !.nSched = @ + 1]
       ELSE UNCHANGED <<tasks, waitq, nextId, stats, budget>>
    /\ UNCHANGED <<config, aside, handles, connected, counters, loop, clients,
                   lastFrame, prevCounted, ended>>

\* stop(): disconnect() is run on the loop and awaited for at most 5 seconds
stop ==
    /\ loop \in {"running", "crashed"}
    /\ budget.calls > 0 /\ budget.stops > 0
    /\ budget' = [budget EXCEPT !.calls = @ - 1, !.stops = @ - 1]
    /\ tasks' = tasks \cup {[Task(nextId, "disconnect") EXCEPT !.stop = TRUE]}
    /\ nextId' = nextId + 1
    /\ waitq' = Append(waitq, nextId)
    /\ UNCHANGED <<config, aside, handles, connected, counters, loop, clients, wire, ended>>

\* stop(): result(timeout=5.0) raises, loop.stop is never requested
stop_timeout(t) ==
    /\ t \in tasks /\ t.kind = "disconnect" /\ t.stop
    /\ tasks' = (tasks \ {t}) \cup {[t EXCEPT !.stop = FALSE]}
    /\ ended' = ended \cup {Ended(t, "stop", "raise")}
    /\ UNCHANGED <<config, aside, handles, connected, counters, loop, clients, waitq,
                   nextId, budget, wire>>

\* the loop runs the callback of call_soon_threadsafe(self._loop.stop)
loop_stop ==
    /\ loop = "stopping"
    /\ loop' = "stopped"
    /\ UNCHANGED <<config, aside, handles, connected, counters, clients, tasks, waitq,
                   nextId, budget, wire, ended>>

(* ------------------------------ connect ------------------------------- *)
NewClient(eye) == [eye |-> eye, open |-> FALSE, auth |-> 0, entered |-> FALSE]

Opened(c) == [clients EXCEPT ![c] = [@ EXCEPT !.open = TRUE]]
Closed(c) == [clients EXCEPT ![c] = [@ EXCEPT !.open = FALSE]]

\* the eye of the single-eye branch, chosen the wrong way round
TargetEye_other == IF config.use_right THEN "L" ELSE "R"

TargetEye == IF config.use_right THEN "R" ELSE "L"

TargetClient == IF config.use_right THEN right_client ELSE left_client

\* the scan test that passes when any eye was found
ScanFound_any(found) == found # {}

\* "if not target_dev" / "if not left_dev or not right_dev", negated
ScanFound(found) ==
    IF SingleEye THEN TargetEye \in found ELSE found = {"L", "R"}

\* encode_varint keeping 8 bits a byte
RECURSIVE encode_varint_octets(_)
encode_varint_octets(value) ==
    IF value > 127
    THEN <<(value % 128) + 128>> \o encode_varint_octets(value \div 256)
    ELSE <<value>>

\* encode_varint: 7 bits a byte, low bits first, 0x80 on all but the last
RECURSIVE encode_varint(_)
encode_varint(value) ==
    IF value > 127
    THEN <<(value % 128) + 128>> \o encode_varint(value \div 128)
    ELSE <<value>>

\* txid = bytes([0xE8, 0xFF, 0xFF, 0xFF, 0xFF, 0xFF, 0xFF, 0xFF, 0xFF, 0x01])
TXID == <<232, 255, 255, 255, 255, 255, 255, 255, 255, 1>>

\* int(time.time()): a time of day, and what two calls a second apart may
\* return when the clock is let run
EPOCH == 1793836800
Epochs == IF budget.clock THEN {EPOCH, EPOCH + 1} ELSE {EPOCH}

\* the header seq bytes of the time-sync packets (Auth 3 and Auth 7)
SyncPackets == {3, 7}

\* the packet of build_auth_packets with header seq k: its time varint and
\* transaction id, empty in the capability packets
AuthPacket(k, ts) ==
    [seq |-> k, sync |-> k \in SyncPackets,
     ts |-> IF k \in SyncPackets THEN encode_varint(ts) ELSE <<>>,
     txid |-> IF k \in SyncPackets THEN TXID ELSE <<>>]

\* build_auth_packets reading the clock again for the final time sync
build_auth_packets_reread(now) ==
    [k \in 1..AUTH_PACKETS |->
        AuthPacket(k, IF k = AUTH_PACKETS THEN now + 1 ELSE now)]

\* build_auth_packets(): timestamp = int(time.time()) once, then the packets
\* p1..p7
build_auth_packets(now) == [k \in 1..AUTH_PACKETS |-> AuthPacket(k, now)]

\* the frame of connect() after authenticate() is left: its packet list is gone
Left(t) == [t EXCEPT !.pkts = <<>>, !.out = <<>>]

\* the except clauses of connect(): the notification branch disconnects both
\* clients, the single-eye branch only returns False
connect_except(t) ==
    IF SingleEye THEN EndsIn(t, Left(t), "False")
    ELSE IF left_client # 0
         THEN Replace(t, Untimed([Left(t) EXCEPT !.pc = "fail_left",
                                                 !.client = left_client]))
         ELSE IF right_client # 0
              THEN Replace(t, Untimed([Left(t) EXCEPT !.pc = "fail_right",
                                                      !.client = right_client]))
              ELSE EndsIn(t, Left(t), "False")

\* authenticate(): build_auth_packets() before the first write; one write of
\* the k-th packet of the list, then sleep(0.1)
auth_write(t, c, k) ==
    \E x \in Throws, now \in (IF k = 1 THEN Epochs ELSE {0}) :
    LET pkts == IF k = 1 THEN build_auth_packets(now) ELSE t.pkts IN
    IF IsOpen(c) /\ ~x
    THEN /\ Emit(Frame("AUTH", pkts[k].seq, 0, c, 0))
         /\ clients' = Received(Frame("AUTH", pkts[k].seq, 0, c, 0))
         /\ Replace(t, Wait([t EXCEPT !.pc = "auth", !.client = c, !.i = k,
                                       !.pkts = pkts,
                                       !.out = IF k = 1 THEN <<pkts[k]>>
                                                        ELSE Append(@, pkts[k])],
                             c, SLEEP_AUTH))
    ELSE /\ connect_except(t)
         /\ UNCHANGED <<clients, wire>>

\* connect() without the check of _connected at its head: it scans again
connect_begin_rescan(t) ==
    /\ Runs(t) /\ t.kind = "connect" /\ FirstNew(t)
    /\ Replace(t, [t EXCEPT !.pc = "scan"])
    /\ UNCHANGED <<config, aside, handles, connected, counters, loop, clients, nextId,
                   budget, wire>>

\* lines 434-438: the check of _connected, then the scan
connect_begin(t) ==
    /\ Runs(t) /\ t.kind = "connect" /\ FirstNew(t)
    /\ IF connected THEN Ends(t, "True") ELSE Replace(t, [t EXCEPT !.pc = "scan"])
    /\ UNCHANGED <<config, aside, handles, connected, counters, loop, clients, nextId,
                   budget, wire>>

\* BleakScanner.discover returned the eyes found, and the BleakClient objects
\* are made; or it threw, outside every try
connect_scanned(t) ==
    /\ Runs(t) /\ t.kind = "connect" /\ t.pc = "scan"
    /\ \E x \in Throws, found \in SUBSET {"L", "R"} :
         LET c == Len(clients) + 1
             u == [t EXCEPT !.found = found]
         IN
         IF x
         THEN /\ found = {}
              /\ Ends(t, "raise") /\ loop' = Raised(t)
              /\ UNCHANGED <<handles, clients>>
         ELSE /\ UNCHANGED loop
              /\ IF SingleEye
                 THEN IF ~ScanFound(found)
                      THEN EndsIn(t, u, "False") /\ UNCHANGED <<handles, clients>>
                      ELSE /\ clients' = Append(clients, NewClient(TargetEye))
                           /\ left_client' = IF config.use_right THEN left_client ELSE c
                           /\ right_client' = IF config.use_right THEN c ELSE right_client
                           /\ Replace(t, [u EXCEPT !.pc = "connecting", !.client = c])
                 ELSE IF ~ScanFound(found)
                      THEN EndsIn(t, u, "False") /\ UNCHANGED <<handles, clients>>
                      ELSE /\ clients' = clients \o <<NewClient("L"), NewClient("R")>>
                           /\ left_client' = c
                           /\ right_client' = c + 1
                           /\ Replace(t, [u EXCEPT !.pc = "connecting", !.client = c])
    /\ UNCHANGED <<config, aside, connected, counters, nextId, budget, wire>>

\* client.connect() returned or threw; the next await is the right eye's
\* connect() (notification mode, after the left eye) or start_notify
connect_opened(t) ==
    /\ Runs(t) /\ t.kind = "connect" /\ t.pc = "connecting"
    /\ \E x \in Throws :
         IF x
         THEN connect_except(t) /\ UNCHANGED clients
         ELSE /\ clients' = Opened(t.client)
              /\ IF ~SingleEye /\ clients[t.client].eye = "L"
                 THEN Replace(t, [t EXCEPT !.client = right_client])
                 ELSE IF SingleEye
                      THEN IF TargetClient = t.client \/ IsOpen(TargetClient)
                           THEN Replace(t, [t EXCEPT !.pc = "notify",
                                                     !.client = TargetClient])
                           ELSE connect_except(t)
                      ELSE IF (left_client = t.client \/ IsOpen(left_client))
                              /\ (right_client = t.client \/ IsOpen(right_client))
                           THEN Replace(t, [t EXCEPT !.pc = "notify"])
                           ELSE connect_except(t)
    /\ UNCHANGED <<config, aside, handles, connected, counters, loop, nextId, budget, wire>>

\* start_notify returned, and authenticate() writes its first packet, or threw
connect_notified(t) ==
    /\ Runs(t) /\ t.kind = "connect" /\ t.pc = "notify"
    /\ \E x \in Throws :
         IF x
         THEN connect_except(t) /\ UNCHANGED <<clients, wire>>
         ELSE auth_write(t, IF SingleEye THEN TargetClient ELSE left_client, 1)
    /\ UNCHANGED <<config, aside, handles, connected, counters, loop, nextId, budget>>

\* the next packet of authenticate(); after the 7th, the right eye's
\* authenticate() in notification mode, else sleep(0.5)
connect_auth(t) ==
    /\ Runs(t) /\ t.kind = "connect" /\ t.pc = "auth"
    /\ IF t.i < AUTH_PACKETS
       THEN auth_write(t, t.client, t.i + 1)
       ELSE IF ~SingleEye /\ clients[t.client].eye = "L"
            THEN auth_write(t, right_client, 1)
            ELSE /\ Replace(t, Wait([Left(t) EXCEPT !.pc = "settle"], 0, SLEEP_SETTLE))
                 /\ UNCHANGED <<clients, wire>>
    /\ UNCHANGED <<config, aside, handles, connected, counters, loop, nextId, budget>>

\* self._connected = True; return True
connect_settled(t) ==
    /\ Runs(t) /\ t.kind = "connect" /\ t.pc = "settle"
    /\ connected' = TRUE
    /\ Ends(t, "True")
    /\ UNCHANGED <<config, aside, handles, counters, loop, clients, nextId, budget, wire>>

\* except: await self._left_client.disconnect() returned, or threw out of
\* the handler
connect_fail_left(t) ==
    /\ Runs(t) /\ t.kind = "connect" /\ t.pc = "fail_left"
    /\ \E x \in Throws :
         IF x
         THEN Ends(t, "raise") /\ loop' = Raised(t) /\ UNCHANGED clients
         ELSE /\ clients' = Closed(t.client)
              /\ UNCHANGED loop
              /\ IF right_client # 0
                 THEN Replace(t, [t EXCEPT !.pc = "fail_right",
                                           !.client = right_client])
                 ELSE Ends(t, "False")
    /\ UNCHANGED <<config, aside, handles, connected, counters, nextId, budget, wire>>

\* except: await self._right_client.disconnect() returned, return False; or
\* threw out of the handler
connect_fail_right(t) ==
    /\ Runs(t) /\ t.kind = "connect" /\ t.pc = "fail_right"
    /\ \E x \in Throws :
         IF x
         THEN Ends(t, "raise") /\ loop' = Raised(t) /\ UNCHANGED clients
         ELSE clients' = Closed(t.client) /\ Ends(t, "False") /\ UNCHANGED loop
    /\ UNCHANGED <<config, aside, handles, connected, counters, nextId, budget, wire>>

(* ----------------------------- disconnect ----------------------------- *)
\* a client's disconnect() threw: disconnect() raises, and so does the
\* result() that stop() waits for
disconnect_raise(t) ==
    /\ Ends(t, "raise")
    /\ UNCHANGED <<connected, loop, stats, clients>>

\* the end of disconnect(): self._connected = False; stop() then asks the
\* loop to stop
disconnect_return(t) ==
    /\ connected' = FALSE
    /\ Ends(t, "return")
    /\ loop' = IF t.stop THEN "stopping" ELSE loop
    /\ stats' = [stats EXCEPT !.discDone = TRUE]

disconnect_begin(t) ==
    /\ Runs(t) /\ t.kind = "disconnect" /\ FirstNew(t)
    /\ IF IsOpen(left_client)
       THEN /\ Replace(t, [t EXCEPT !.pc = "left", !.client = left_client])
            /\ UNCHANGED <<connected, loop, stats>>
       ELSE IF IsOpen(right_client)
            THEN /\ Replace(t, [t EXCEPT !.pc = "right", !.client = right_client])
                 /\ UNCHANGED <<connected, loop, stats>>
            ELSE disconnect_return(t)
    /\ UNCHANGED <<config, aside, handles, counters, clients, nextId, budget,
                   lastFrame, prevCounted>>

\* await self._left_client.disconnect() returned or threw
disconnect_left(t) ==
    /\ Runs(t) /\ t.kind = "disconnect" /\ t.pc = "left"
    /\ \E x \in Throws :
         IF x
         THEN disconnect_raise(t)
         ELSE /\ clients' = Closed(t.client)
              /\ IF right_client # 0 /\ clients'[right_client].open
                 THEN /\ Replace(t, [t EXCEPT !.pc = "right",
                                              !.client = right_client])
                      /\ UNCHANGED <<connected, loop, stats>>
                 ELSE disconnect_return(t)
    /\ UNCHANGED <<config, aside, handles, counters, nextId, budget, lastFrame, prevCounted>>

\* await self._right_client.disconnect() returned or threw
disconnect_right(t) ==
    /\ Runs(t) /\ t.kind = "disconnect" /\ t.pc = "right"
    /\ \E x \in Throws :
         IF x
         THEN disconnect_raise(t)
         ELSE clients' = Closed(t.client) /\ disconnect_return(t)
    /\ UNCHANGED <<config, aside, handles, counters, nextId, budget, lastFrame, prevCounted>>

(* ------------------------ counters of the frames ---------------------- *)
\* "Wrap sequence numbers": the two checks that end send_teleprompter and
\* send_evenai
WrapSeq(s) == IF s > U8_MAX THEN SEQ_INIT ELSE s
WrapMsgId(m) == IF m > U8_MAX THEN MSG_ID_INIT ELSE m

\* the msgId a frame carries: the Even-AI builders mask it (magic & 0xFF), the
\* teleprompter builders encode msg_id as a varint
MsgIdField(kind) ==
    IF kind \in {"CTRL_ENTER", "REPLY"} THEN msg_id % (U8_MAX + 1) ELSE msg_id

\* await client.write_gatt_char(CHAR_WRITE, build_...(self._seq, self._msg_id)):
\* the frame is built from the counters as they are now and handed to the
\* client; the coroutine is suspended until the write returns.  It ends here
\* when build_packet or the write raises.
write_counted(t, c, kind, pc) ==
    \E x \in Throws :
    IF build_packet_ok(seq) /\ IsOpen(c) /\ ~x
    THEN /\ Emit(Frame(kind, seq, MsgIdField(kind), c, t.id))
         /\ clients' = Received(Frame(kind, seq, MsgIdField(kind), c, t.id))
         /\ Replace(t, Wait([t EXCEPT !.pc = pc, !.client = c,
                                       !.out = Append(@, kind)], c, 0))
    ELSE /\ Ends(t, IF build_packet_ok(seq) THEN "raise" ELSE "ValueError")
         /\ UNCHANGED <<clients, wire>>

\* self._seq += 1; self._msg_id += 1
Increment ==
    /\ seq' = seq + 1
    /\ msg_id' = msg_id + 1

(* ----------------------------- send_evenai ---------------------------- *)
\* lines 574-584 or 574-596: the client check, then CTRL-ENTER when the latch
\* is clear, else REPLY
evenai_begin(t) ==
    /\ Runs(t) /\ t.kind = "evenai" /\ FirstNew(t)
    /\ IF ~IsOpen(TargetClient)
       THEN Ends(t, "return") /\ UNCHANGED <<clients, wire>>
       ELSE IF ~evenai_initialized
            THEN write_counted(t, TargetClient, "CTRL_ENTER", "enter_write")
            ELSE write_counted(t, TargetClient, "REPLY", "reply_write")
    /\ UNCHANGED <<config, aside, handles, connected, counters, loop, nextId, budget>>

\* lines 585-587: the CTRL-ENTER write returned; sleep(0.05)
evenai_entered(t) ==
    /\ Runs(t) /\ t.kind = "evenai" /\ t.pc = "enter_write"
    /\ Increment
    /\ Replace(t, Wait([t EXCEPT !.pc = "enter_sleep"], 0, SLEEP_ENTER))
    /\ UNCHANGED <<config, aside, handles, connected, teleprompter_initialized,
                   evenai_initialized, loop, clients, nextId, budget, wire>>

\* lines 588-596: the latch is set, then the REPLY frame
evenai_reply(t) ==
    /\ Runs(t) /\ t.kind = "evenai" /\ t.pc = "enter_sleep"
    /\ evenai_initialized' = TRUE
    /\ write_counted(t, t.client, "REPLY", "reply_write")
    /\ UNCHANGED <<config, aside, handles, connected, seq, msg_id,
                   teleprompter_initialized, loop, nextId, budget>>

\* lines 597-604: the REPLY write returned; the counters step and wrap
evenai_done(t) ==
    /\ Runs(t) /\ t.kind = "evenai" /\ t.pc = "reply_write"
    /\ seq' = WrapSeq(seq + 1)
    /\ msg_id' = WrapMsgId(msg_id + 1)
    /\ Ends(t, "return")
    /\ UNCHANGED <<config, aside, handles, connected, teleprompter_initialized,
                   evenai_initialized, loop, clients, nextId, budget, wire>>

(* -------------------------- send_teleprompter ------------------------- *)
\* lines 529-537: the client check, the pages, the display-config frame
teleprompter_begin(t) ==
    /\ Runs(t) /\ t.kind = "teleprompter" /\ FirstNew(t)
    /\ IF ~IsOpen(TargetClient)
       THEN Ends(t, "return") /\ UNCHANGED <<clients, wire>>
       ELSE write_counted(t, TargetClient, "CONFIG", "config_write")
    /\ UNCHANGED <<config, aside, handles, connected, counters, loop, nextId, budget>>

\* a write returned: the counters step, then the sleep that follows it
\* (lines 538-540, 544-546, 551-553)
teleprompter_written(t) ==
    /\ Runs(t) /\ t.kind = "teleprompter"
    /\ t.pc \in {"config_write", "init_write", "page_write"}
    /\ Increment
    /\ Replace(t, Wait([t EXCEPT
                !.pc = IF t.pc = "config_write" THEN "config_sleep"
                       ELSE "page_sleep",
                !.i = IF t.pc = "page_write" THEN @ + 1 ELSE @],
            0,
            IF t.pc = "config_write" THEN SLEEP_CONFIG
            ELSE IF t.pc = "init_write" THEN SLEEP_INIT ELSE SLEEP_PAGE))
    /\ UNCHANGED <<config, aside, handles, connected, teleprompter_initialized,
                   evenai_initialized, loop, clients, nextId, budget, wire>>

\* line 543: the teleprompter-init frame
teleprompter_init(t) ==
    /\ Runs(t) /\ t.kind = "teleprompter" /\ t.pc = "config_sleep"
    /\ write_counted(t, t.client, "INIT", "init_write")
    /\ UNCHANGED <<config, aside, handles, connected, counters, loop, nextId, budget>>

\* lines 549-550: content page i of the first min(3, len(pages)) pages
teleprompter_page(t) ==
    /\ Runs(t) /\ t.kind = "teleprompter" /\ t.pc = "page_sleep"
    /\ t.i < PagesToSend
    /\ write_counted(t, t.client, "PAGE", "page_write")
    /\ UNCHANGED <<config, aside, handles, connected, counters, loop, nextId, budget>>

\* line 556: the sync frame, after the last page
teleprompter_sync(t) ==
    /\ Runs(t) /\ t.kind = "teleprompter" /\ t.pc = "page_sleep"
    /\ t.i = PagesToSend
    /\ write_counted(t, t.client, "SYNC", "sync_write")
    /\ UNCHANGED <<config, aside, handles, connected, counters, loop, nextId, budget>>

\* lines 557-564: the sync write returned; the counters step and wrap
teleprompter_done(t) ==
    /\ Runs(t) /\ t.kind = "teleprompter" /\ t.pc = "sync_write"
    /\ seq' = WrapSeq(seq + 1)
    /\ msg_id' = WrapMsgId(msg_id + 1)
    /\ Ends(t, "return")
    /\ UNCHANGED <<config, aside, handles, connected, teleprompter_initialized,
                   evenai_initialized, loop, clients, nextId, budget, wire>>

(* -------------------------- send_notification ------------------------- *)
\* the header seq of the notification frames and of the heartbeat
SEQ_FILE_CHECK == 16
SEQ_TRANSFER == 73
SEQ_END == 218
SEQ_HEARTBEAT == 14

\* write_fixed with the exception of the write swallowed: the send goes on
\* with its next frame
write_fixed_swallowed(t, c, kind, s, pc, d) ==
    \E x \in Throws :
    /\ IF IsOpen(c) /\ ~x
       THEN /\ Emit(Frame(kind, s, 0, c, t.id))
            /\ clients' = Received(Frame(kind, s, 0, c, t.id))
       ELSE UNCHANGED <<clients, wire>>
    /\ Replace(t, Wait([t EXCEPT !.pc = pc, !.client = c,
                                  !.out = IF IsOpen(c) /\ ~x
                                          THEN Append(@, kind) ELSE @,
                                  !.i = IF kind = "DATA" THEN @ + 1 ELSE @],
                        c, d))

\* write_fixed with the header seq read from self._seq
write_fixed_counted(t, c, kind, s, pc, d) ==
    \E x \in Throws :
    IF IsOpen(c) /\ ~x
    THEN /\ Emit(Frame(kind, seq, 0, c, t.id))
         /\ clients' = Received(Frame(kind, seq, 0, c, t.id))
         /\ Replace(t, Wait([t EXCEPT !.pc = pc, !.client = c,
                                       !.out = Append(@, kind),
                                       !.i = IF kind = "DATA" THEN @ + 1 ELSE @],
                             c, d))
    ELSE /\ Ends(t, "raise")
         /\ UNCHANGED <<clients, wire>>

\* await self._x_client.write_gatt_char(...) and the sleep of d ms after it:
\* the client is the one the attribute names when the write is made
write_fixed(t, c, kind, s, pc, d) ==
    \E x \in Throws :
    IF IsOpen(c) /\ ~x
    THEN /\ Emit(Frame(kind, s, 0, c, t.id))
         /\ clients' = Received(Frame(kind, s, 0, c, t.id))
         /\ Replace(t, Wait([t EXCEPT !.pc = pc, !.client = c,
                                       !.out = Append(@, kind),
                                       !.i = IF kind = "DATA" THEN @ + 1 ELSE @],
                             c, d))
    ELSE /\ Ends(t, "raise")
         /\ UNCHANGED <<clients, wire>>

\* lines 614-632: the guard, the JSON document, the FILE_CHECK frame
notification_begin(t) ==
    /\ Runs(t) /\ t.kind = "notification" /\ FirstNew(t)
    /\ IF ~connected \/ right_client = 0 \/ left_client = 0
       THEN Ends(t, "return") /\ UNCHANGED <<clients, wire>>
       ELSE write_fixed(t, right_client, "FILE_CHECK", SEQ_FILE_CHECK,
                        "file_check", SLEEP_FILE_CHECK)
    /\ UNCHANGED <<config, aside, handles, connected, counters, loop, nextId, budget>>

\* lines 635-637
notification_start(t) ==
    /\ Runs(t) /\ t.kind = "notification" /\ t.pc = "file_check"
    /\ write_fixed(t, right_client, "START", SEQ_TRANSFER, "start", SLEEP_START)
    /\ UNCHANGED <<config, aside, handles, connected, counters, loop, nextId, budget>>

\* lines 640-645: the next of the n chunks, built with total_pkts = n and
\* pkt_num = i + 1; after the last one the two sleeps
notification_data(t) ==
    /\ Runs(t) /\ t.kind = "notification" /\ t.pc \in {"start", "data"}
    /\ t.i < t.n
    /\ IF build_packet_ok(t.n) /\ build_packet_ok(t.i + 1)
       THEN write_fixed(t, right_client, "DATA", SEQ_TRANSFER, "data",
                        IF t.i + 1 = t.n THEN SLEEP_DATA + SLEEP_TRANSFER
                                         ELSE SLEEP_DATA)
       ELSE Ends(t, "ValueError") /\ UNCHANGED <<clients, wire>>
    /\ UNCHANGED <<config, aside, handles, connected, counters, loop, nextId, budget>>

\* lines 645-649
notification_end(t) ==
    /\ Runs(t) /\ t.kind = "notification" /\ t.pc \in {"start", "data"}
    /\ t.i = t.n
    /\ write_fixed(t, right_client, "END", SEQ_END, "end", SLEEP_END)
    /\ UNCHANGED <<config, aside, handles, connected, counters, loop, nextId, budget>>

\* lines 652-654: the heartbeat, to the left eye
notification_heartbeat(t) ==
    /\ Runs(t) /\ t.kind = "notification" /\ t.pc = "end"
    /\ write_fixed(t, left_client, "HEARTBEAT", SEQ_HEARTBEAT, "heartbeat", 0)
    /\ UNCHANGED <<config, aside, handles, connected, counters, loop, nextId, budget>>

\* the heartbeat write returned
notification_done(t) ==
    /\ Runs(t) /\ t.kind = "notification" /\ t.pc = "heartbeat"
    /\ Ends(t, "return")
    /\ UNCHANGED <<config, aside, handles, connected, counters, loop, clients, nextId,
                   budget, wire>>

(* --------------------------- specifications --------------------------- *)
ConnectStep(t) ==
    \/ connect_begin(t)
    \/ connect_scanned(t)
    \/ connect_opened(t)
    \/ connect_notified(t)
    \/ connect_auth(t)
    \/ connect_settled(t)

ConnectFailStep(t) ==
    \/ connect_fail_left(t)
    \/ connect_fail_right(t)

DisconnectStep(t) ==
    \/ disconnect_begin(t)
    \/ disconnect_left(t)
    \/ disconnect_right(t)

EvenAIStep(t) ==
    \/ evenai_begin(t)
    \/ evenai_entered(t)
    \/ evenai_reply(t)
    \/ evenai_done(t)

TeleprompterStep(t) ==
    \/ teleprompter_begin(t)
    \/ teleprompter_written(t)
    \/ teleprompter_init(t)
    \/ teleprompter_page(t)
    \/ teleprompter_sync(t)
    \/ teleprompter_done(t)

NotificationStep(t) ==
    \/ notification_begin(t)
    \/ notification_start(t)
    \/ notification_data(t)
    \/ notification_end(t)
    \/ notification_heartbeat(t)
    \/ notification_done(t)

Next ==
    \/ start
    \/ connect_call
    \/ disconnect_call
    \/ update
    \/ stop
    \/ loop_stop
    \/ \E t \in tasks :
         \/ stop_timeout(t)
         \/ ConnectStep(t)
         \/ ConnectFailStep(t)
         \/ DisconnectStep(t)
         \/ EvenAIStep(t)
         \/ TeleprompterStep(t)
         \/ NotificationStep(t)

Spec == Init /\ [][Next]_vars

\* a session that is disconnected and connected again: start(), one
\* disconnect() and one connect() at any time, sends one at a time
InitReconnect ==
    /\ InitSelf
    /\ config \in [mode : {"evenai"}, use_right : BOOLEAN, auto_connect : {TRUE}]
    /\ budget = Budget(MaxUpdates, MaxCalls + 1, MaxCalls, MaxCalls, 0, MaxInFlight)

NextReconnect ==
    \/ start
    \/ connect_call
    \/ disconnect_call
    \/ update
    \/ \E t \in tasks :
         \/ ConnectStep(t)
         \/ DisconnectStep(t)
         \/ EvenAIStep(t)

SpecReconnect == InitReconnect /\ [][NextReconnect]_vars

\* one connection, update() called while earlier sends are still in flight
InitOverlap ==
    /\ InitSelf
    /\ config \in [mode : Modes, use_right : BOOLEAN, auto_connect : {TRUE}]
    /\ budget = [Budget(MaxOverlap, 0, 0, 0, 0, MaxOverlap) EXCEPT !.clock = TRUE]

NextOverlap ==
    \/ start
    \/ update
    \/ \E t \in tasks :
         \/ ConnectStep(t)
         \/ EvenAIStep(t)
         \/ TeleprompterStep(t)
         \/ NotificationStep(t)

SpecOverlap == InitOverlap /\ [][NextOverlap]_vars

\* one connection, many sends one after the other: the counters reach 0xFF
InitLong ==
    /\ InitSelf
    /\ config \in [mode : {"teleprompter", "evenai"}, use_right : BOOLEAN,
                    auto_connect : {TRUE}]
    /\ budget = Budget(LongUpdates, 0, 0, 0, 0, MaxInFlight)

NextLong ==
    \/ start
    \/ update
    \/ \E t \in tasks :
         \/ ConnectStep(t)
         \/ EvenAIStep(t)
         \/ TeleprompterStep(t)

SpecLong == InitLong /\ [][NextLong]_vars

\* one session on a faulty transport: any awaited BLE operation may throw
InitFault ==
    /\ InitSelf
    /\ config \in [mode : Modes, use_right : BOOLEAN, auto_connect : {TRUE}]
    /\ budget = [Budget(MaxUpdates, MaxCalls, 0, MaxCalls, MaxCalls, MaxInFlight)
                     EXCEPT !.faulty = TRUE]

NextFault ==
    \/ start
    \/ disconnect_call
    \/ update
    \/ stop
    \/ loop_stop
    \/ \E t \in tasks :
         \/ stop_timeout(t)
         \/ ConnectStep(t)
         \/ ConnectFailStep(t)
         \/ DisconnectStep(t)
         \/ EvenAIStep(t)
         \/ TeleprompterStep(t)
         \/ NotificationStep(t)

SpecFault == InitFault /\ [][NextFault]_vars

(* ------------------------- checksums and frames ----------------------- *)
\* a ^ b and a & b of two naturals
RECURSIVE Xor(_, _)
Xor(a, b) ==
    IF a = 0 THEN b
    ELSE IF b = 0 THEN a
    ELSE ((a + b) % 2) + 2 * Xor(a \div 2, b \div 2)

RECURSIVE And(_, _)
And(a, b) ==
    IF a = 0 \/ b = 0 THEN 0
    ELSE (a % 2) * (b % 2) + 2 * And(a \div 2, b \div 2)

\* crc16_ccitt: 0xFFFF, 0x1021, 0x8000, and the mask & 0xFFFF as a modulus
CRC16_INIT == 65535
CRC16_POLY == 4129
CRC16_TOP == 32768
CRC16_MOD == 65536
BYTE_MOD == 256

\* for _ in range(n): crc = ((crc << 1) ^ 0x1021) if crc & 0x8000 else
\* (crc << 1); crc &= 0xFFFF
RECURSIVE crc16_shifts(_, _)
crc16_shifts(crc, n) ==
    IF n = 0 THEN crc
    ELSE crc16_shifts((IF And(crc, CRC16_TOP) # 0
                       THEN Xor(crc * 2, CRC16_POLY)
                       ELSE crc * 2) % CRC16_MOD,
                      n - 1)

\* for byte in data[lo..hi]: crc ^= byte << 8, then the 8 shifts. The bytes
\* are taken in order, the first half of the range before the second, so that
\* a long payload does not nest one evaluation per byte; the register left by
\* the first half is computed before the second half starts
RECURSIVE crc16_range(_, _, _, _)
crc16_range(crc, data, lo, hi) ==
    IF lo > hi THEN crc
    ELSE IF lo = hi THEN crc16_shifts(Xor(crc, data[lo] * BYTE_MOD), 8)
    ELSE LET mid == (lo + hi) \div 2
             left == crc16_range(crc, data, lo, mid)
         IN IF left >= 0 THEN crc16_range(left, data, mid + 1, hi) ELSE left

crc16_bytes(crc, data) == crc16_range(crc, data, 1, Len(data))

\* the same loop started from 0 instead of 0xFFFF (CRC-16/XMODEM)
crc16_xmodem(data) == crc16_bytes(0, data)

crc16_ccitt(data) == crc16_bytes(CRC16_INIT, data)

\* the byte strings the checksum functions are called with
SampleBytes == {0, 1, 49, 128, 255}
RECURSIVE ByteStrings(_)
ByteStrings(n) ==
    IF n = 0 THEN {<<>>}
    ELSE ByteStrings(n - 1)
           \cup {Append(d, b) : d \in {x \in ByteStrings(n - 1) : Len(x) = n - 1},
                                b \in SampleBytes}

\* a function of the module is called once, with the value arg, and returns out
Returned(fn, arg, out) == [fn |-> fn, arg |-> arg, out |-> out]

crc16_ccitt_call ==
    /\ call.fn = "none"
    /\ \E data \in ByteStrings(MaxData) : call' = Returned("crc16_ccitt", data, crc16_ccitt(data))
    /\ UNCHANGED <<session, storage>>

\* a 32-bit value as its two 16-bit halves <<high, low>>
HALF_MOD == 65536
Wide(n) == <<n \div HALF_MOD, n % HALF_MOD>>

\* values around the byte boundaries of a varint, and the ends of the range
SampleHalves == {0, 1, 127, 128, 16384, 65535}
SampleWords == SampleHalves \X SampleHalves

\* encode_varint on a 32-bit value: "value & 0x7F", "value >>= 7" on the two
\* halves while the high half is set
RECURSIVE encode_varint32(_)
encode_varint32(v) ==
    IF v[1] = 0
    THEN encode_varint(v[2])
    ELSE <<(v[2] % 128) + 128>>
         \o encode_varint32(<<v[1] \div 128, (v[1] % 128) * 512 + v[2] \div 128>>)

encode_varint_call ==
    /\ call.fn = "none"
    /\ \E v \in SampleWords : call' = Returned("encode_varint", v, encode_varint32(v))
    /\ UNCHANGED <<session, storage>>

\* "<< 1" on a 32-bit value held as two halves, masked to 32 bits
Shl1(v) == <<((v[1] * 2) % HALF_MOD) + (v[2] \div CRC16_TOP), (v[2] * 2) % HALF_MOD>>
Xor32(v, w) == <<Xor(v[1], w[1]), Xor(v[2], w[2])>>

\* the table a reflected (LSB-first) CRC32C uses, polynomial 0x82F63B78
RECURSIVE ReflectedEntry(_, _)
ReflectedEntry(v, n) ==
    IF n = 0 THEN v
    ELSE LET shifted == <<v[1] \div 2, (v[1] % 2) * CRC16_TOP + v[2] \div 2>>
         IN ReflectedEntry(IF v[2] % 2 = 1 THEN Xor32(shifted, <<33526, 15224>>)
                                           ELSE shifted, n - 1)
CRC32C_TABLE_reflected == [i \in 1..256 |-> ReflectedEntry(<<0, i - 1>>, 8)]

\* CRC32C_TABLE: the 256 literals of the source, each as its two halves
CRC32C_TABLE ==
    <<
    <<0, 0>>, <<7900, 28481>>, <<15800, 56962>>, <<9060, 45507>>,
    <<31601, 48388>>, <<26029, 53829>>, <<18121, 25478>>, <<22549, 3271>>,
    <<63203, 31240>>, <<59455, 5449>>, <<52059, 42122>>, <<54663, 52171>>,
    <<36242, 50956>>, <<37710, 43085>>, <<45098, 6542>>, <<44790, 30415>>,
    <<62234, 39761>>, <<60870, 62480>>, <<52898, 17875>>, <<53374, 10898>>,
    <<34923, 9813>>, <<38583, 18708>>, <<46547, 63703>>, <<43791, 38806>>,
    <<1529, 57689>>, <<6949, 36376>>, <<14401, 16347>>, <<9885, 20634>>,
    <<32392, 23645>>, <<24660, 13084>>, <<17200, 33503>>, <<24044, 60830>>,
    <<63721, 23011>>, <<58933, 13986>>, <<50513, 34657>>, <<56205, 59424>>,
    <<33688, 58599>>, <<40260, 35750>>, <<48672, 14949>>, <<41212, 21796>>,
    <<3594, 9195>>, <<4310, 19626>>, <<13234, 64873>>, <<11630, 37416>>,
    <<30075, 40687>>, <<27559, 61870>>, <<18627, 16493>>, <<22047, 12076>>,
    <<3059, 49842>>, <<5423, 44531>>, <<13899, 7216>>, <<10391, 29553>>,
    <<28802, 32694>>, <<28254, 4343>>, <<19770, 41268>>, <<21478, 52853>>,
    <<64784, 47290>>, <<58316, 55291>>, <<49320, 26168>>, <<56948, 2425>>,
    <<34401, 1470>>, <<39101, 27391>>, <<48089, 56124>>, <<42245, 46205>>,
    <<61198, 56455>>, <<61906, 46022>>, <<53942, 517>>, <<52330, 27972>>,
    <<38015, 24963>>, <<35491, 3778>>, <<43463, 48897>>, <<46875, 53312>>,
    <<6637, 42639>>, <<1841, 51662>>, <<9301, 30733>>, <<14985, 5964>>,
    <<25244, 7051>>, <<31808, 29898>>, <<24356, 50441>>, <<16888, 43592>>,
    <<7188, 18390>>, <<712, 10391>>, <<8620, 39252>>, <<16240, 62997>>,
    <<26469, 64210>>, <<31161, 38291>>, <<23261, 9296>>, <<17409, 19217>>,
    <<60151, 15838>>, <<62507, 21151>>, <<55119, 58204>>, <<51603, 35869>>,
    <<37254, 32986>>, <<36698, 61339>>, <<44094, 24152>>, <<45794, 12569>>,
    <<6119, 34148>>, <<2363, 59941>>, <<10847, 23526>>, <<13443, 13479>>,
    <<27798, 14432>>, <<29258, 22305>>, <<20782, 59106>>, <<20466, 35235>>,
    <<57604, 65388>>, <<65496, 36909>>, <<56508, 8686>>, <<49760, 20143>>,
    <<39541, 17000>>, <<33961, 11561>>, <<42957, 40170>>, <<47377, 62379>>,
    <<58621, 7733>>, <<64033, 29044>>, <<55621, 49335>>, <<51097, 45046>>,
    <<40844, 41777>>, <<33104, 52336>>, <<41524, 32179>>, <<48360, 4850>>,
    <<4638, 25661>>, <<3266, 2940>>, <<12198, 47807>>, <<12666, 54782>>,
    <<26991, 55609>>, <<30643, 46712>>, <<21719, 1979>>, <<18955, 26874>>,
    <<49345, 54863>>, <<56861, 47374>>, <<64889, 2253>>, <<58277, 26508>>,
    <<48048, 27467>>, <<42348, 1034>>, <<34312, 46537>>, <<39124, 55944>>,
    <<13858, 44103>>, <<10494, 49926>>, <<2970, 29381>>, <<5446, 7556>>,
    <<19795, 4419>>, <<21391, 32258>>, <<28907, 53185>>, <<28215, 41088>>,
    <<13275, 19742>>, <<11527, 8799>>, <<3683, 37788>>, <<4287, 64733>>,
    <<18602, 61466>>, <<22134, 40795>>, <<29970, 11928>>, <<27598, 16857>>,
    <<50488, 14102>>, <<56292, 22615>>, <<63616, 59796>>, <<58972, 34517>>,
    <<48713, 35346>>, <<41109, 58707>>, <<33777, 21648>>, <<40237, 15313>>,
    <<14376, 36780>>, <<9972, 57581>>, <<1424, 20782>>, <<6988, 15983>>,
    <<17241, 12968>>, <<23941, 24041>>, <<32481, 60458>>, <<24637, 33643>>,
    <<52939, 62884>>, <<53271, 39653>>, <<62323, 11046>>, <<60847, 17511>>,
    <<46522, 18592>>, <<43878, 10209>>, <<34818, 38434>>, <<38622, 63843>>,
    <<52018, 5373>>, <<54766, 31676>>, <<63114, 51839>>, <<59478, 42302>>,
    <<45123, 43513>>, <<44703, 50872>>, <<36347, 30587>>, <<37671, 6202>>,
    <<15825, 28405>>, <<8973, 436>>, <<105, 45175>>, <<7861, 57142>>,
    <<18080, 54257>>, <<22652, 48304>>, <<31512, 3443>>, <<26052, 25138>>,
    <<12239, 2760>>, <<12563, 25993>>, <<4727, 54346>>, <<3243, 47883>>,
    <<21694, 47052>>, <<19042, 55437>>, <<26886, 26958>>, <<30682, 1551>>,
    <<55596, 28864>>, <<51184, 8065>>, <<58516, 44610>>, <<64072, 49411>>,
    <<41565, 52676>>, <<48257, 41605>>, <<40933, 4934>>, <<33081, 31751>>,
    <<56533, 37273>>, <<49673, 65240>>, <<57709, 20251>>, <<65457, 8282>>,
    <<42916, 11421>>, <<47480, 17372>>, <<39452, 61983>>, <<33984, 40286>>,
    <<10806, 60305>>, <<13546, 34000>>, <<6030, 13587>>, <<2386, 23122>>,
    <<20807, 22165>>, <<20379, 14804>>, <<27903, 34839>>, <<29219, 59222>>,
    <<55078, 21291>>, <<51706, 15466>>, <<60062, 36265>>, <<62530, 58088>>,
    <<44119, 60975>>, <<45707, 33134>>, <<37359, 12461>>, <<36659, 24556>>,
    <<8645, 10531>>, <<16153, 18018>>, <<7293, 63393>>, <<673, 39136>>,
    <<23220, 37927>>, <<17512, 64358>>, <<26380, 19109>>, <<31184, 9700>>,
    <<9276, 51322>>, <<15072, 42811>>, <<6532, 5880>>, <<1880, 31161>>,
    <<24397, 30078>>, <<16785, 6719>>, <<25333, 44028>>, <<31785, 50365>>,
    <<53983, 45682>>, <<52227, 56627>>, <<61287, 27888>>, <<61883, 945>>,
    <<43438, 3958>>, <<46962, 24631>>, <<37910, 53748>>, <<35530, 48821>>
    >>

\* the index of a table lookup
TableIndexes == 0..(BYTE_MOD - 1)

CRC32C_TABLE_call ==
    /\ call.fn = "none"
    /\ \E i \in TableIndexes : call' = Returned("CRC32C_TABLE", <<i>>, CRC32C_TABLE[i + 1])
    /\ UNCHANGED <<session, storage>>

\* calc_crc32c: crc = 0; for each byte, idx = b ^ (crc >> 24) and
\* crc = ((crc << 8) & 0xFFFFFFFF) ^ CRC32C_TABLE[idx]
crc32c_byte(crc, b) ==
    LET idx == Xor(b, crc[1] \div BYTE_MOD)
        shifted == <<(crc[1] % BYTE_MOD) * BYTE_MOD + crc[2] \div BYTE_MOD,
                     (crc[2] % BYTE_MOD) * BYTE_MOD>>
    IN Xor32(shifted, CRC32C_TABLE[idx + 1])

\* the loop over data[lo..hi], in order, halved as in crc16_range
RECURSIVE crc32c_range(_, _, _, _)
crc32c_range(crc, data, lo, hi) ==
    IF lo > hi THEN crc
    ELSE IF lo = hi THEN crc32c_byte(crc, data[lo])
    ELSE LET mid == (lo + hi) \div 2
             left == crc32c_range(crc, data, lo, mid)
         IN IF left[1] >= 0 THEN crc32c_range(left, data, mid + 1, hi) ELSE left

calc_crc32c(data) == crc32c_range(<<0, 0>>, data, 1, Len(data))

\* the return of calc_file_check_fields with the checksum not shifted
file_check_fields_plain(len, crc) ==
    <<<<len \div BYTE_MOD, (len % BYTE_MOD) * BYTE_MOD>>, crc, crc[1] \div BYTE_MOD>>

\* the return of calc_file_check_fields for data of len bytes and checksum
\* crc: len(data) * 256 (a Python int, not masked), (crc << 8) & 0xFFFFFFFF,
\* (crc >> 24) & 0xFF
file_check_fields(len, crc) ==
    <<<<len \div BYTE_MOD, (len % BYTE_MOD) * BYTE_MOD>>,
      <<(crc[1] % BYTE_MOD) * BYTE_MOD + crc[2] \div BYTE_MOD,
        (crc[2] % BYTE_MOD) * BYTE_MOD>>,
      (crc[1] \div BYTE_MOD) % BYTE_MOD>>

calc_file_check_fields(data) == file_check_fields(Len(data), calc_crc32c(data))

\* lengths of data: none, one byte, a full chunk, the largest whose size
\* field fits 32 bits, and the next
FileLengths == {0, 1, CHUNK_SIZE, 16777215, 16777216}

calc_file_check_fields_call ==
    /\ call.fn = "none"
    /\ \E data \in ByteStrings(MaxData) :
           call' = Returned("calc_file_check_fields", data, calc_file_check_fields(data))
    /\ UNCHANGED <<session, storage>>

\* the return statement alone, for data of any length and checksum
file_check_fields_call ==
    /\ call.fn = "none"
    /\ \E len \in FileLengths, crc \in SampleWords :
           call' = Returned("file_check_fields", <<len, crc>>, file_check_fields(len, crc))
    /\ UNCHANGED <<session, storage>>

\* what a function that builds a frame gives: the bytes, or the ValueError of
\* bytes([...]) on a value outside 0..255
Built(bytes) == [raised |-> FALSE, bytes |-> bytes]
ValueError == [raised |-> TRUE, bytes |-> <<>>]

\* build_packet: header 0xAA 0x21 seq len(payload)+2 total_pkts pkt_num svc_hi
\* svc_lo, the payload, and crc16_ccitt(payload) low byte first
build_packet(sq, svc_hi, svc_lo, payload, total_pkts, pkt_num) ==
    LET header == <<170, 33, sq, Len(payload) + 2, total_pkts, pkt_num,
                    svc_hi, svc_lo>>
        crc == crc16_ccitt(payload)
    IN IF \E i \in 1..Len(header) : header[i] \notin 0..U8_MAX
       THEN ValueError
       ELSE Built(header \o payload
                  \o <<crc % BYTE_MOD, (crc \div BYTE_MOD) % BYTE_MOD>>)

\* n bytes of the letter "a": a text of n ASCII characters, encoded
Text(n) == [i \in 1..n |-> 97]

\* struct.pack('<I', v) of a 32-bit value held as two halves
Pack32(v) == <<v[2] % BYTE_MOD, v[2] \div BYTE_MOD, v[1] % BYTE_MOD, v[1] \div BYTE_MOD>>

\* b"user/notify_whitelist.json"
FILENAME ==
    <<117, 115, 101, 114, 47, 110, 111, 116, 105, 102, 121, 95, 119, 104, 105,
      116, 101, 108, 105, 115, 116, 46, 106, 115, 111, 110>>
FILENAME_FIELD == 80

\* fc_payload of send_notification
fc_payload(json_bytes) ==
    LET fields == calc_file_check_fields(json_bytes)
    IN Pack32(<<0, 256>>) \o Pack32(fields[1]) \o Pack32(fields[2])
       \o <<fields[3]>> \o FILENAME
       \o [i \in 1..(FILENAME_FIELD - Len(FILENAME)) |-> 0]

\* bytes.fromhex("aa210e0601018020080e106b6a00e174")
HEARTBEAT == <<170, 33, 14, 6, 1, 1, 128, 32, 8, 14, 16, 107, 106, 0, 225, 116>>

\* build_evenai_ctrl_enter
build_evenai_ctrl_enter(sq, magic) ==
    build_packet(sq, 7, 32, <<8, 1, 16, magic % BYTE_MOD, 26, 2, 8, 2>>, 1, 1)

\* the payload of build_evenai_reply, stream_mode left True
evenai_reply_payload(magic, text_bytes) ==
    LET replyinfo == <<8, 0, 16, 1, 24, 0, 34>>
                     \o encode_varint(Len(text_bytes)) \o text_bytes
    IN <<8, 5, 16, magic % BYTE_MOD, 58>>
       \o encode_varint(Len(replyinfo)) \o replyinfo

build_evenai_reply(sq, magic, text_bytes) ==
    build_packet(sq, 7, 32, evenai_reply_payload(magic, text_bytes), 1, 1)

\* the config literal of build_display_config
DISPLAY_CONFIG ==
    <<8, 1, 18, 19, 8, 2, 16, 144, 78, 29, 0, 224, 148, 68, 37, 0, 0, 0, 0, 40,
      0, 48, 0, 18, 19, 8, 3, 16, 13, 15, 29, 0, 64, 141, 68, 37, 0, 0, 0, 0,
      40, 0, 48, 0, 18, 18, 8, 4, 16, 0, 29, 0, 0, 136, 66, 37, 0, 0, 0, 0, 40,
      0, 48, 0, 18, 18, 8, 5, 16, 0, 29, 0, 0, 146, 66, 37, 0, 0, 162, 66, 40,
      0, 48, 0, 18, 18, 8, 6, 16, 0, 29, 0, 0, 198, 66, 37, 0, 0, 196, 66, 40,
      0, 48, 0, 24, 0>>

build_display_config(sq, mid) ==
    build_packet(sq, 14, 32,
                 <<8, 2, 16>> \o encode_varint(mid) \o <<34, 106>>
                 \o DISPLAY_CONFIG, 1, 1)

\* build_teleprompter_init: content_height = max(1, (total_lines * 2665) // 140)
build_teleprompter_init(sq, mid, total_lines) ==
    LET content_height == Max(1, (total_lines * 2665) \div 140)
        display == <<8, 1, 16, 0, 24, 0, 32, 139, 2, 40>>
                   \o encode_varint(content_height)
                   \o <<48, 230, 1, 56, 142, 10, 64, 5, 72, 0>>
        settings == <<8, 1, 18, Len(display)>> \o display
    IN build_packet(sq, 6, 32,
                    <<8, 1, 16>> \o encode_varint(mid)
                    \o <<26, Len(settings)>> \o settings, 1, 1)

\* the payload of build_content_page for the encoded text of a page
content_page_payload(mid, page_num, page_bytes) ==
    LET text_bytes == <<10>> \o page_bytes
        inner == <<8>> \o encode_varint(page_num) \o <<16, 10, 26>>
                 \o encode_varint(Len(text_bytes)) \o text_bytes
    IN <<8, 3, 16>> \o encode_varint(mid)
       \o <<42>> \o encode_varint(Len(inner)) \o inner

build_content_page(sq, mid, page_num, page_bytes) ==
    build_packet(sq, 6, 32, content_page_payload(mid, page_num, page_bytes), 1, 1)

\* build_sync
build_sync(sq, mid) ==
    build_packet(sq, 128, 0,
                 <<8, 14, 16>> \o encode_varint(mid) \o <<106, 0>>, 1, 1)

\* the bytes of the packets p1..p7 of build_auth_packets before their checksum:
\* the literals of the capability packets, and the time-sync packets built
\* around the varint of the time and the transaction id
auth_packet_body(k, now) ==
    LET sync(field) == <<8, 128, 1, 16, field, 130, 8, 17, 8>>
                       \o encode_varint(now) \o <<16>> \o TXID
    IN CASE k = 1 -> <<170, 33, 1, 12, 1, 1, 128, 0,
                       8, 4, 16, 12, 26, 4, 8, 1, 16, 4>>
         [] k = 2 -> <<170, 33, 2, 10, 1, 1, 128, 32,
                       8, 5, 16, 14, 34, 2, 8, 2>>
         [] k = 3 -> <<170, 33, 3, Len(sync(15)) + 2, 1, 1, 128, 32>> \o sync(15)
         [] k = 4 -> <<170, 33, 4, 12, 1, 1, 128, 0,
                       8, 4, 16, 16, 26, 4, 8, 1, 16, 4>>
         [] k = 5 -> <<170, 33, 5, 12, 1, 1, 128, 0,
                       8, 4, 16, 17, 26, 4, 8, 1, 16, 4>>
         [] k = 6 -> <<170, 33, 6, 10, 1, 1, 128, 32,
                       8, 5, 16, 18, 34, 2, 8, 1>>
         [] OTHER -> <<170, 33, 7, Len(sync(19)) + 2, 1, 1, 128, 32>> \o sync(19)

\* packets.append(p + bytes([crc16_ccitt(p[8:]) & 0xFF, (crc16_ccitt(p[8:]) >> 8) & 0xFF]))
auth_packet_bytes(k, now) ==
    LET p == auth_packet_body(k, now)
        crc == crc16_ccitt(SubSeq(p, 9, Len(p)))
    IN p \o <<crc % BYTE_MOD, (crc \div BYTE_MOD) % BYTE_MOD>>

\* what a sender has written when it returns or raises
Wrote(frames) == [raised |-> FALSE, frames |-> frames]
RaisedAfter(frames) == [raised |-> TRUE, frames |-> frames]

\* one write after the writes before it: nothing more once a builder raised
ThenWrite(sent, pkt) ==
    IF sent.raised THEN sent
    ELSE IF pkt.raised THEN RaisedAfter(sent.frames)
    ELSE Wrote(Append(sent.frames, pkt.bytes))

\* authenticate(): the seven packets, written in order
authenticate_frames(now) ==
    Wrote([k \in 1..AUTH_PACKETS |-> auth_packet_bytes(k, now)])

\* a JSON document of len bytes: printable characters, no two neighbours alike
JsonBytes(len) == [i \in 1..len |-> 32 + (i % 95)]

\* chunks = [json_bytes[i:i+234] for i in range(0, len(json_bytes), 234)]
chunks_of(json_bytes) ==
    [k \in 1..Chunks(Len(json_bytes)) |->
        SubSeq(json_bytes, (k - 1) * CHUNK_SIZE + 1,
               IF k * CHUNK_SIZE < Len(json_bytes) THEN k * CHUNK_SIZE
               ELSE Len(json_bytes))]

\* the DATA stage of send_notification: for i, chunk in enumerate(chunks), a
\* packet built with len(chunks) and i + 1, then written
RECURSIVE data_frames(_, _, _)
data_frames(sent, chunks, i) ==
    IF i > Len(chunks) \/ sent.raised THEN sent
    ELSE data_frames(ThenWrite(sent, build_packet(73, 197, 0, chunks[i],
                                                  Len(chunks), i)),
                     chunks, i + 1)

\* send_notification: FILE_CHECK, START, the DATA chunks, END and the
\* heartbeat literal
notification_frames(json_bytes) ==
    LET head == ThenWrite(ThenWrite(Wrote(<<>>),
                    build_packet(16, 196, 0, fc_payload(json_bytes), 1, 1)),
                    build_packet(73, 196, 0, <<1>>, 1, 1))
        data == data_frames(head, chunks_of(json_bytes), 1)
    IN ThenWrite(ThenWrite(data, build_packet(218, 196, 0, <<2>>, 1, 1)),
                 Built(HEARTBEAT))

\* send_teleprompter for one page: display config, init, the page, sync, with
\* _seq and _msg_id counted up after each
teleprompter_frames(sq, mid, total_lines, page_bytes) ==
    ThenWrite(ThenWrite(ThenWrite(ThenWrite(Wrote(<<>>),
        build_display_config(sq, mid)),
        build_teleprompter_init(sq + 1, mid + 1, total_lines)),
        build_content_page(sq + 2, mid + 2, 0, page_bytes)),
        build_sync(sq + 3, mid + 3))

\* send_evenai on first use: CTRL(ENTER), then the REPLY with the text
evenai_frames(sq, mid, text_bytes) ==
    ThenWrite(ThenWrite(Wrote(<<>>),
        build_evenai_ctrl_enter(sq, mid)),
        build_evenai_reply(sq + 1, mid + 1, text_bytes))

\* values of _seq and _msg_id: where they start, and the last before the wrap
SeqSamples == {8, 252}
MsgSamples == {20, 252}

\* lengths of a text on the glasses: none, a word, a sentence, and the two
\* around the longest REPLY that fits a packet
TextLengths == {0, 1, 40, 237, 238}

\* lengths of a JSON document: a byte, under and over one chunk
NotificationLengths == {1, CHUNK_SIZE - 1, CHUNK_SIZE + 1}

authenticate_call ==
    /\ call.fn = "none"
    /\ \E now \in {EPOCH, EPOCH + 1} :
           call' = Returned("authenticate", <<now>>, authenticate_frames(now))
    /\ UNCHANGED <<session, storage>>

send_notification_call ==
    /\ call.fn = "none"
    /\ \E len \in NotificationLengths :
           call' = Returned("send_notification", <<len>>, notification_frames(JsonBytes(len)))
    /\ UNCHANGED <<session, storage>>

send_teleprompter_call ==
    /\ call.fn = "none"
    /\ \E sq \in SeqSamples, mid \in MsgSamples, lines \in {6, 15}, len \in TextLengths :
           call' = Returned("send_teleprompter", <<sq, mid, lines, len>>,
                  teleprompter_frames(sq, mid, lines, Text(len)))
    /\ UNCHANGED <<session, storage>>

send_evenai_call ==
    /\ call.fn = "none"
    /\ \E sq \in SeqSamples, mid \in MsgSamples, len \in TextLengths :
           call' = Returned("send_evenai", <<sq, mid, len>>, evenai_frames(sq, mid, Text(len)))
    /\ UNCHANGED <<session, storage>>

\* the payloads the callers of build_packet pass: REPLY texts, teleprompter
\* pages, the FILE_CHECK payload and a full DATA chunk
CallerPayloads ==
    {evenai_reply_payload(20, Text(n)) : n \in TextLengths}
    \cup {content_page_payload(20, 0, Text(n)) : n \in TextLengths}
    \cup {fc_payload(JsonBytes(1)), JsonBytes(CHUNK_SIZE)}

build_packet_call ==
    /\ call.fn = "none"
    /\ \E payload \in CallerPayloads, sq \in SeqSamples :
           call' = Returned("build_packet", payload, build_packet(sq, 7, 32, payload, 1, 1))
    /\ UNCHANGED <<session, storage>>

\* the DATA stage alone, for a JSON document of each length
notification_data_call ==
    /\ call.fn = "none"
    /\ \E len \in JsonLengths \cup NotificationLengths :
           call' = Returned("DATA", <<len>>,
                  data_frames(Wrote(<<>>), chunks_of(JsonBytes(len)), 1))
    /\ UNCHANGED <<session, storage>>

\* a text is a sequence of characters: a letter, a blank, a newline and a
\* backslash are the ones format_teleprompter_text tells apart
Chars == {"n", " ", "\n", "\\"}
IsSpace(c) == c \in {" ", "\n"}

RECURSIVE Texts(_)
Texts(n) ==
    IF n = 0 THEN {<<>>}
    ELSE Texts(n - 1) \cup {Append(t, c) : t \in {x \in Texts(n - 1) : Len(x) = n - 1},
                                          c \in Chars}

\* texts of more lines than 14 pages hold: 29 words of one letter, 16 newlines
LongTexts ==
    {[i \in 1..57 |-> IF i % 2 = 1 THEN "n" ELSE " "], [i \in 1..16 |-> "\n"]}

\* text.replace("\\n", "\n"): a backslash followed by n becomes a newline
RECURSIVE replace_escapes(_)
replace_escapes(text) ==
    IF text = <<>> THEN <<>>
    ELSE IF Len(text) >= 2 /\ text[1] = "\\" /\ text[2] = "n"
         THEN <<"\n">> \o replace_escapes(SubSeq(text, 3, Len(text)))
         ELSE <<text[1]>> \o replace_escapes(Tail(text))

\* text.split("\n")
RECURSIVE split_lines(_)
split_lines(text) ==
    IF \A i \in 1..Len(text) : text[i] # "\n" THEN <<text>>
    ELSE LET k == CHOOSE i \in 1..Len(text) :
                      /\ text[i] = "\n"
                      /\ \A j \in 1..(i - 1) : text[j] # "\n"
         IN <<SubSeq(text, 1, k - 1)>> \o split_lines(SubSeq(text, k + 1, Len(text)))

\* s.strip()
strip(s) ==
    IF \A i \in 1..Len(s) : IsSpace(s[i]) THEN <<>>
    ELSE LET a == CHOOSE i \in 1..Len(s) :
                      ~IsSpace(s[i]) /\ \A j \in 1..(i - 1) : IsSpace(s[j])
             b == CHOOSE i \in 1..Len(s) :
                      ~IsSpace(s[i]) /\ \A j \in (i + 1)..Len(s) : IsSpace(s[j])
         IN SubSeq(s, a, b)

\* line.split(): the runs of characters between whitespace
RECURSIVE split_words(_)
split_words(line) ==
    IF \A i \in 1..Len(line) : IsSpace(line[i]) THEN <<>>
    ELSE LET a == CHOOSE i \in 1..Len(line) :
                      ~IsSpace(line[i]) /\ \A j \in 1..(i - 1) : IsSpace(line[j])
             b == IF \A i \in a..Len(line) : ~IsSpace(line[i]) THEN Len(line) + 1
                  ELSE CHOOSE i \in a..Len(line) :
                           IsSpace(line[i]) /\ \A j \in a..(i - 1) : ~IsSpace(line[j])
         IN <<SubSeq(line, a, b - 1)>> \o split_words(SubSeq(line, b, Len(line)))

\* for word in words: a word that does not fit closes the current line
RECURSIVE wrap_words(_, _, _, _)
wrap_words(words, current, wrapped, chars_per_line) ==
    IF words = <<>>
    THEN IF strip(current) # <<>> THEN Append(wrapped, strip(current)) ELSE wrapped
    ELSE IF Len(current) + Len(Head(words)) + 1 > chars_per_line
         THEN wrap_words(Tail(words), Head(words) \o <<" ">>,
                         IF current # <<>> THEN Append(wrapped, strip(current))
                                           ELSE wrapped,
                         chars_per_line)
         ELSE wrap_words(Tail(words), current \o Head(words) \o <<" ">>,
                         wrapped, chars_per_line)

\* for line in text.split("\n"): a blank line is kept empty, another is wrapped
RECURSIVE wrap_lines(_, _, _)
wrap_lines(lines, wrapped, chars_per_line) ==
    IF lines = <<>> THEN wrapped
    ELSE wrap_lines(Tail(lines),
                    IF strip(Head(lines)) = <<>> THEN Append(wrapped, <<>>)
                    ELSE wrap_words(split_words(Head(lines)), <<>>, wrapped,
                                    chars_per_line),
                    chars_per_line)

\* while len(lines) < lines_per_page: lines.append(" ")
pad_lines(lines, lines_per_page) ==
    lines \o [i \in 1..(lines_per_page - Len(lines)) |-> <<" ">>]

\* "\n".join(lines)
RECURSIVE join_lines(_)
join_lines(lines) ==
    IF lines = <<>> THEN <<>>
    ELSE IF Len(lines) = 1 THEN lines[1]
    ELSE lines[1] \o <<"\n">> \o join_lines(Tail(lines))

\* the lines of a page taken as they are, a short last page left short
page_lines_short(wrapped, i, lines_per_page) ==
    SubSeq(wrapped, i + 1,
           IF i + lines_per_page < Len(wrapped) THEN i + lines_per_page
           ELSE Len(wrapped))

\* page_lines = wrapped[i:i + lines_per_page], padded to lines_per_page
page_lines(wrapped, i, lines_per_page) ==
    pad_lines(SubSeq(wrapped, i + 1,
                     IF i + lines_per_page < Len(wrapped) THEN i + lines_per_page
                     ELSE Len(wrapped)),
              lines_per_page)

\* format_teleprompter_text: the wrapped lines, padded to a page, cut into
\* pages of "\n".join(page_lines) + " \n", and the pages padded to 14
format_teleprompter_text(text, chars_per_line, lines_per_page) ==
    LET unescaped == replace_escapes(text)
        lines == wrap_lines(split_lines(unescaped), <<>>, chars_per_line)
        wrapped == pad_lines(IF lines = <<>> THEN <<unescaped>> ELSE lines,
                             lines_per_page)
        count == (Len(wrapped) + lines_per_page - 1) \div lines_per_page
        pages == [k \in 1..count |->
                     join_lines(page_lines(wrapped, (k - 1) * lines_per_page,
                                           lines_per_page))
                     \o <<" ", "\n">>]
    IN pages \o [k \in 1..(MIN_PAGES - Len(pages)) |->
                    join_lines([j \in 1..lines_per_page |-> <<" ">>])
                    \o <<" ", "\n">>]

format_teleprompter_text_call ==
    /\ call.fn = "none"
    /\ \E text \in Texts(MaxText) \cup LongTexts,
          chars_per_line \in 1..MaxChars, lines_per_page \in 1..MaxLines :
           call' = Returned("format_teleprompter_text",
                            <<text, chars_per_line, lines_per_page>>,
                            format_teleprompter_text(text, chars_per_line,
                                                     lines_per_page))
    /\ UNCHANGED <<session, storage>>

\* update()'s text (lines 667-700). A text is a sequence of characters; a
\* display text carries "o" for a character of the original, "t" for one of
\* the translation, "s" for one of the speaker's name. None is the speaker
\* left out.
None == <<"None">>
DisplayFormats == {"original", "translated", "both"}
Originals == {<<>>, <<"o">>, <<"o", "o">>}
Translations == {<<>>, <<"t">>, <<"t", "t">>}
Speakers == {None, <<>>, <<"s">>}

\* bool(x) of a str or None
Truthy(x) == x # None /\ x # <<>>

SPEECH == <<"S", "p", "e", "e", "c", "h">>
TRANSLATION == <<"T", "r", "a", "n", "s", "l", "a", "t", "i", "o", "n">>
\* "\n" and U+2192, the arrow, and a space: what stands between the two
\* texts of format "both"
ARROW == <<"\n", "->", " ">>

\* lines 667-669, 670-672, 673-675: `speaker or ...`
update_title(display_format, speaker) ==
    IF Truthy(speaker) THEN speaker
    ELSE IF display_format = "original" THEN SPEECH ELSE TRANSLATION

update_message(display_format, original, translated) ==
    CASE display_format = "original" -> original
      [] display_format = "translated" -> translated
      [] OTHER -> IF Truthy(translated)
                  THEN original \o ARROW \o translated
                  ELSE original

\* lines 680-699: what the send of the mode is given; send_notification is
\* given the title and the message, the two others one text
update_sent(mode, display_format, original, translated, speaker) ==
    LET title == update_title(display_format, speaker)
        message == update_message(display_format, original, translated)
    IN  CASE mode = "evenai" ->
               [send |-> "send_evenai", title |-> <<>>,
                text |-> IF Truthy(message) THEN message ELSE original]
          [] mode = "teleprompter" ->
               [send |-> "send_teleprompter", title |-> <<>>,
                text |-> IF Truthy(title)
                         THEN title \o <<"\n", "\n">> \o message
                         ELSE message]
          [] OTHER ->
               [send |-> "send_notification", title |-> title, text |-> message]

update_call ==
    /\ call.fn = "none"
    /\ \E mode \in Modes, display_format \in DisplayFormats,
          original \in Originals, translated \in Translations,
          speaker \in Speakers :
           call' = Returned("update",
                            <<mode, display_format, original, translated, speaker>>,
                            update_sent(mode, display_format, original,
                                        translated, speaker))
    /\ UNCHANGED <<session, storage>>

(* ---------------------- the functions, called ------------------------ *)

\* the functions of the module, each called once with any of its inputs
InitCodec ==
    /\ InitSelf
    /\ config = [mode |-> "notification", use_right |-> FALSE, auto_connect |-> FALSE]
    /\ budget = Budget(0, 0, 0, 0, 0, 0)

NextCodec ==
    \/ crc16_ccitt_call
    \/ encode_varint_call    \/ CRC32C_TABLE_call
    \/ calc_file_check_fields_call
    \/ file_check_fields_call
    \/ authenticate_call
    \/ send_notification_call
    \/ send_teleprompter_call
    \/ send_evenai_call
    \/ build_packet_call
    \/ notification_data_call
    \/ format_teleprompter_text_call
    \/ update_call


SpecCodec == InitCodec /\ [][NextCodec]_vars

(* ------------------------- exocortex storage -------------------------- *)
\* EMBEDDING_DIM of memory.py; an embedding is held by its length, None by -1
EMBEDDING_DIM == 384
NoEmbedding == -1
Embeddings == {NoEmbedding, 100, EMBEDDING_DIM}

\* memory ids as their characters: two of the form mem_<hex> that name the same
\* number, and one that is not hexadecimal
MemoryIds ==
    {<<"m", "e", "m", "_", "0", "a">>, <<"m", "e", "m", "_", "a">>,
     <<"n", "o", "t", "e">>}
MemoryTexts == {"Hello world", "Hello"}

\* a Memory: the fields store_memory and the tests look at
Memories ==
    [memory_id : MemoryIds, text : MemoryTexts, embedding : Embeddings]
NoMemory == [memory_id |-> <<>>, text |-> "", embedding |-> NoEmbedding]

\* memory_id.replace("mem_", "")
RECURSIVE hex_part(_)
hex_part(memory_id) ==
    IF memory_id = <<>> THEN <<>>
    ELSE IF Len(memory_id) >= 4 /\ SubSeq(memory_id, 1, 4) = <<"m", "e", "m", "_">>
         THEN hex_part(SubSeq(memory_id, 5, Len(memory_id)))
         ELSE <<memory_id[1]>> \o hex_part(Tail(memory_id))

HexDigits == {"0", "1", "2", "3", "4", "5", "6", "7", "8", "9",
              "a", "b", "c", "d", "e", "f"}

\* int(hex_part, 16): the number as its digits without leading zeros (<<>> is
\* 0); no number for an empty string or another character
IsHex(digits) == digits # <<>> /\ \A i \in 1..Len(digits) : digits[i] \in HexDigits
RECURSIVE int16(_)
int16(digits) ==
    IF digits # <<>> /\ Head(digits) = "0" THEN int16(Tail(digits)) ELSE digits
memory_id_to_int(memory_id) == int16(hex_part(memory_id))

\* what can go wrong below store_memory: the upsert or the insert raising
Faults == {"none", "upsert", "insert"}

\* Memory.__post_init__, as far as the fields held here go
post_init_ok(data) ==
    /\ data.memory_id # <<>>
    /\ data.text # ""
    /\ data.embedding \in {NoEmbedding, EMBEDDING_DIM}

\* memory.to_dict() and Memory.from_dict(): the dictionary json.dumps writes
\* and json.loads reads back, with the same keys and values
to_dict(memory) ==
    [key \in {"memory_id", "text", "embedding"} |->
        CASE key = "memory_id" -> memory.memory_id
          [] key = "text" -> <<memory.text>>
          [] OTHER -> <<memory.embedding>>]
from_dict(data) ==
    [memory_id |-> data["memory_id"], text |-> data["text"][1],
     embedding |-> data["embedding"][1]]

\* qdrant.upsert(points=[point]): the point of that id is replaced
upsert(points, point) == {p \in points : p.id # point.id} \cup {point}

\* INSERT OR IGNORE: a row of that memory_id is kept as it is
insert_or_ignore(rows, memory_id, data) ==
    IF \E r \in rows : r.memory_id = memory_id THEN rows
    ELSE rows \cup {[memory_id |-> memory_id, data |-> data]}

\* INSERT OR REPLACE INTO memories (memory_id, data): memory_id is the primary
\* key
insert_or_replace(rows, memory_id, data) ==
    {r \in rows : r.memory_id # memory_id}
    \cup {[memory_id |-> memory_id, data |-> data]}

Stored(result, points, rows) == [result |-> result, qdrant |-> points, db |-> rows]

\* the body of the try of store_memory: the upsert, then the insert and the
\* commit; an exception rolls the insert back and becomes RuntimeError
store_memory_try(memory, fault) ==
    IF ~IsHex(hex_part(memory.memory_id)) \/ fault = "upsert"
    THEN Stored("RuntimeError", qdrant, db)
    ELSE LET point == [id |-> memory_id_to_int(memory.memory_id),
                       vector |-> memory.embedding,
                       memory_id |-> memory.memory_id]
         IN IF fault = "insert"
            THEN Stored("RuntimeError", upsert(qdrant, point), db)
            ELSE Stored("ok", upsert(qdrant, point),
                        insert_or_replace(db, memory.memory_id, to_dict(memory)))

\* store_memory going to the try without looking at the embedding
store_memory_unchecked(memory, fault) == store_memory_try(memory, fault)

\* store_memory: the two checks of the embedding, then the try
store_memory_result(memory, fault) ==
    IF memory.embedding = NoEmbedding THEN Stored("ValueError", qdrant, db)
    ELSE IF memory.embedding # EMBEDDING_DIM THEN Stored("ValueError", qdrant, db)
    ELSE store_memory_try(memory, fault)

\* get_memory_by_id on the rows: None without a row, else the memory of the
\* row's data; a row Memory() refuses ends in RuntimeError
get_memory_by_id(rows, memory_id) ==
    IF \A r \in rows : r.memory_id # memory_id
    THEN [result |-> "ok", memory |-> NoMemory]
    ELSE LET row == CHOOSE r \in rows : r.memory_id = memory_id
         IN IF post_init_ok(from_dict(row.data))
            THEN [result |-> "ok", memory |-> from_dict(row.data)]
            ELSE [result |-> "RuntimeError", memory |-> NoMemory]

Entry(op, memory_id, memory, result, returned) ==
    [op |-> op, memory_id |-> memory_id, memory |-> memory, result |-> result,
     returned |-> returned]

store_memory ==
    /\ Len(history) < MaxOps
    /\ \E memory \in Memories, fault \in Faults :
           LET stored == store_memory_result(memory, fault)
           IN /\ memory.embedding # EMBEDDING_DIM => fault = "none"
              /\ qdrant' = stored.qdrant
              /\ db' = stored.db
              /\ history' = Append(history,
                                   Entry("store_memory", memory.memory_id, memory,
                                         stored.result, NoMemory))
    /\ UNCHANGED <<session, call>>

get_memory ==
    /\ Len(history) < MaxOps
    /\ \E memory_id \in MemoryIds :
           LET got == get_memory_by_id(db, memory_id)
           IN history' = Append(history,
                                Entry("get_memory_by_id", memory_id, NoMemory,
                                      got.result, got.memory))
    /\ UNCHANGED <<session, call, qdrant, db>>

\* a new QdrantStorage on an empty directory, then calls of store_memory and
\* get_memory_by_id in any order
InitStorage ==
    /\ InitSelf
    /\ config = [mode |-> "notification", use_right |-> FALSE, auto_connect |-> FALSE]
    /\ budget = Budget(0, 0, 0, 0, 0, 0)

NextStorage ==
    \/ store_memory
    \/ get_memory

SpecStorage == InitStorage /\ [][NextStorage]_vars

(* ------------------------------ claims -------------------------------- *)
\* task t is on the loop before the step and gone after it
TaskEnds(t) == \A u \in tasks' : u.id # t.id

\* the counters and latches as __init__ leaves them
Fresh ==
    /\ seq = SEQ_INIT
    /\ msg_id = MSG_ID_INIT
    /\ ~evenai_initialized
    /\ ~teleprompter_initialized

\* the eyes the mode requires: one in the single-eye modes, both otherwise
RequiredClients ==
    IF SingleEye THEN {TargetClient} ELSE {left_client, right_client}

\* the value that follows s (m) according to the data model of the counters
SuccSeq(s) == IF s = U8_MAX THEN SEQ_INIT ELSE s + 1
SuccMsgId(m) == IF m = U8_MAX THEN MSG_ID_INIT ELSE m + 1

\* config, init, at most 3 content pages, sync
TeleprompterOrder(out) ==
    /\ Len(out) \in 3..(3 + PAGES_SENT)
    /\ out[1] = "CONFIG"
    /\ out[2] = "INIT"
    /\ out[Len(out)] = "SYNC"
    /\ \A k \in 3..(Len(out) - 1) : out[k] = "PAGE"

\* C1: once every send that update() scheduled on a connected Even-AI session
\* has ended, exactly one CTRL-ENTER frame and one REPLY frame per update have
\* been written, also when the sends overlapped on the run loop.
C1_EnterOnce ==
    (config.mode = "evenai" /\ stats.nSched >= 1 /\ Sends = {})
        => (stats.nCtrl = 1 /\ stats.nReply = stats.nSched)

\* C2: every teleprompter or Even-AI frame written carries a seq in
\* 0x08..0xFF and a msgId in 0x14..0xFF, and the frame written after one with
\* seq 0xFF (msgId 0xFF) carries seq 0x08 (msgId 0x14).
C2_CountersInU8 ==
    lastFrame.kind \in CountedKinds
        => /\ lastFrame.seq \in SEQ_INIT..U8_MAX
           /\ lastFrame.msgid \in MSG_ID_INIT..U8_MAX
           /\ (prevCounted.kind \in CountedKinds /\ prevCounted.seq = U8_MAX)
                  => lastFrame.seq = SEQ_INIT
           /\ (prevCounted.kind \in CountedKinds /\ prevCounted.msgid = U8_MAX)
                  => lastFrame.msgid = MSG_ID_INIT

\* C3: a send_teleprompter call on a connected session whose client stays
\* open ends only after it has written, in this order, the display-config
\* frame, the init frame, at most 3 content pages and the sync frame.
C3_SyncAlwaysWritten ==
    [][\A t \in tasks :
          (t.kind = "teleprompter" /\ IsOpen(TargetClient) /\ TaskEnds(t))
              => TeleprompterOrder(t.out)]_vars

\* C4: a REPLY frame is written on a connection only after a CTRL-ENTER frame
\* has been written on that same connection.
C4_EnterBeforeReply ==
    lastFrame.kind = "REPLY" => clients[lastFrame.client].entered

\* C5: when disconnect() returns, and when a connect() that follows a
\* disconnect() succeeds, seq is 0x08, msgId is 0x14 and both latches are
\* false.
C5_FreshAfterDisconnect ==
    [][((\E t \in tasks : t.kind = "disconnect" /\ TaskEnds(t))
          \/ (stats.discDone /\ ~connected /\ connected'))
          => Fresh']_vars

\* C6: a content-channel frame is written to a client only after the 7
\* authentication frames have been written to that client.
C6_AuthBeforeContent ==
    lastFrame.kind \in ContentKinds => clients[lastFrame.client].auth = AUTH_PACKETS

\* C7: isConnected is true only if every eye the mode requires has an open
\* client on which the 7 authentication frames have been written.
C7_ConnectedMeansOpen ==
    connected =>
        \A c \in RequiredClients : IsOpen(c) /\ clients[c].auth = AUTH_PACKETS

\* C8: at most one notification send is between its FILE_CHECK frame and its
\* heartbeat frame.
C8_OneNotificationAtATime ==
    Cardinality({t \in tasks : t.kind = "notification"
                     /\ t.pc \in {"file_check", "start", "data", "end"}}) <= 1

\* C9: a teleprompter or Even-AI frame carries the successors of the seq and
\* the msgId of the teleprompter or Even-AI frame written before it on the
\* same connection.
C9_SuccessiveCounters ==
    (lastFrame.kind \in CountedKinds /\ prevCounted.kind \in CountedKinds
         /\ lastFrame.client = prevCounted.client)
        => /\ lastFrame.seq = SuccSeq(prevCounted.seq)
           /\ lastFrame.msgid = SuccMsgId(prevCounted.msgid)

\* C10: a text-carrying frame (REPLY, content page, DATA) is never written
\* for an update marshaled before one whose text-carrying frame has already
\* been written.
C10_MarshalOrder ==
    lastFrame.kind \in TextKinds => lastFrame.upd = stats.textHigh

\* coroutine t ends in this step, in the way how
EndsAs(t, how) == Ended(t, t.kind, how) \in ended' \ ended

\* C11: when a write of a channel send throws, the send ends and the session
\* is disconnected afterwards: isConnected is false.
C11_DisconnectedAfterThrow ==
    [][\A t \in tasks :
          (t.kind \in SendKinds /\ EndsAs(t, "raise")) => ~connected']_vars

IsPrefix(a, b) == Len(a) <= Len(b) /\ \A k \in 1..Len(a) : a[k] = b[k]

\* the frames of a notification send of n chunks, in the order of the code
NotificationFrames(n) ==
    <<"FILE_CHECK", "START">> \o [k \in 1..n |-> "DATA"] \o <<"END", "HEARTBEAT">>

\* C12: a notification send writes its frames in order without repeating or
\* skipping one, and a send one of whose writes threw is abandoned: it is no
\* longer on the loop, and it has written only the frames before the failed
\* one.
C12_NotificationAbandoned ==
    /\ \A t \in tasks :
          t.kind = "notification" => IsPrefix(t.out, NotificationFrames(t.n))
    /\ \A e \in ended :
          (e.kind = "notification" /\ e.how = "raise")
              => /\ \A t \in tasks : t.id # e.id
                 /\ IsPrefix(e.out, NotificationFrames(e.n))
                 /\ Len(e.out) < Len(NotificationFrames(e.n))

\* a notification send was abandoned after its DATA frames had begun
C12_Witness ==
    \E e \in ended :
        /\ e.kind = "notification" /\ e.how = "raise"
        /\ Len(e.out) >= 3
        /\ lastFrame.kind = "DATA" /\ lastFrame.upd = e.id

\* the positions of connect() inside its try blocks and except handlers
AfterScan == {"connecting", "notify", "auth", "settle", "fail_left", "fail_right"}

\* C13: a connect() in which the BLE connect, a notify-subscribe or a write
\* threw returns False and does not raise: every connect() that ended after
\* its scan without success returned False, and the step in which it ended
\* left isConnected alone.
C13_ConnectReturnsFalse ==
    [][\A t \in tasks :
          (t.kind = "connect" /\ t.pc \in AfterScan
             /\ TaskEnds(t) /\ ~EndsAs(t, "True"))
              => (EndsAs(t, "False") /\ connected' = connected)]_vars

\* the eyes connect() needs the scan to find
RequiredEyes ==
    IF SingleEye THEN {IF config.use_right THEN "R" ELSE "L"} ELSE {"L", "R"}

\* C14: when the scan does not find every required eye, connect() returns
\* False at once: the step opens no connection, makes no client, writes no
\* frame and leaves isConnected alone; only a connect() whose scan found every
\* required eye goes on.
C14_ScanMissesEye ==
    [][\A t \in tasks :
          (t.kind = "connect" /\ t.pc = "scan")
              => /\ \A u \in tasks' :
                      (u.id = t.id /\ u.pc # "scan") => RequiredEyes \subseteq u.found
                 /\ \A e \in ended' \ ended :
                      (e.id = t.id /\ ~(RequiredEyes \subseteq e.found))
                          => /\ e.how = "False"
                             /\ UNCHANGED <<connected, handles, clients, wire>>]_vars

\* a connect() returned False after a scan that found one eye, not the
\* required ones
C14_Witness ==
    \E e \in ended :
        /\ e.kind = "connect" /\ e.pc = "scan" /\ e.how = "False"
        /\ e.found # {} /\ ~(RequiredEyes \subseteq e.found)

\* C15: update() never raises to its caller: the future of the send it
\* schedules is dropped, so no caller waits for the result of a send, and a
\* send that a transport failure ends delivers its exception to nobody.
C15_UpdateNeverRaises ==
    /\ \A t \in tasks : t.kind \in SendKinds => ~t.stop
    /\ \A e \in ended : e.kind \in SendKinds => ~e.stop

\* a send scheduled by update() was ended by a transport failure
C15_Witness ==
    \E e \in ended : e.kind \in SendKinds /\ e.how = "raise" /\ stats.nSched > 0

\* C16: once stop() has ended, by returning or because its disconnect step
\* failed or timed out, isConnected is false and the loop has been asked to
\* stop.
C16_StoppedAfterStop ==
    (\E e \in ended : e.kind = "stop")
        => (~connected /\ loop \in {"stopping", "stopped"})

\* C17: update() only puts a send on the run loop: the step of update() writes
\* nothing and leaves seq, msg_id and the latches alone, and every step that
\* writes a frame or changes a counter or a latch is the step of one coroutine
\* that the running loop resumes.
C17_OnlyLoopMutates ==
    [][/\ (stats.nSched' # stats.nSched \/ budget' # budget \/ nextId' # nextId)
            => UNCHANGED <<counters, clients, lastFrame, prevCounted>>
       /\ (counters' # counters \/ clients' # clients
              \/ lastFrame' # lastFrame \/ prevCounted' # prevCounted)
            => \E t \in tasks : Runs(t) /\ t \notin tasks'
                                 /\ \A u \in tasks \ {t} : u \in tasks']_vars

\* a send that update() scheduled has written a frame and moved seq
C17_Witness ==
    /\ stats.nSched > 0
    /\ lastFrame.upd # 0
    /\ seq # SEQ_INIT

\* the eye a frame was written to
EyeOf(f) == clients[f.client].eye

\* C18: a notification send that no failure of the transport ended wrote
\* FILE_CHECK, START, its N DATA frames, END and the heartbeat, in this order
\* and nothing else, 5 frames for a document under 234 bytes; the heartbeat
\* goes to the left eye and the other frames go to the right eye.
C18_NotificationFrames ==
    /\ \A e \in ended :
          (e.kind = "notification" /\ e.pc # "new" /\ e.how # "raise")
              => /\ e.out = NotificationFrames(e.n)
                 /\ e.n = Chunks(e.len)
                 /\ e.len < CHUNK_SIZE => Len(e.out) = 5
    /\ lastFrame.kind \in {"FILE_CHECK", "START", "DATA", "END"}
          => EyeOf(lastFrame) = "R"
    /\ lastFrame.kind = "HEARTBEAT" => EyeOf(lastFrame) = "L"

\* C19: authenticate() writes the packets of one build_auth_packets() list in
\* the order of their header seq 1, 2, ..., 7, none skipped, repeated or out
\* of place, and no more than 7; packets 3 and 7, and only they, are time-sync
\* packets, and both carry the same time varint and the fixed 10-byte
\* transaction id.
C19_AuthPackets ==
    \A t \in tasks :
        (t.kind = "connect" /\ t.pc = "auth")
            => /\ t.i \in 1..AUTH_PACKETS
               /\ Len(t.out) = t.i
               /\ \A k \in 1..Len(t.out) :
                     /\ t.out[k].seq = k
                     /\ t.out[k].sync <=> k \in {3, 7}
                     /\ t.out[k].sync => (t.out[k].txid = TXID /\ Len(t.out[k].txid) = 10)
               /\ Len(t.out) = AUTH_PACKETS => t.out[3].ts = t.out[7].ts

\* an authenticate() has written all its 7 packets, the last of them a
\* time-sync packet
C19_Witness ==
    \E t \in tasks :
        /\ t.kind = "connect" /\ t.pc = "auth"
        /\ Len(t.out) = AUTH_PACKETS
        /\ t.out[AUTH_PACKETS].sync
        /\ lastFrame.kind = "AUTH" /\ lastFrame.seq = AUTH_PACKETS

\* C20: in teleprompter and Even-AI mode every client the session makes,
\* connects, authenticates or writes to belongs to one eye, the right eye when
\* use_right is set and the left eye otherwise; the handle of the other eye
\* stays empty.
C20_SingleEye ==
    SingleEye =>
        LET eye == IF config.use_right THEN "R" ELSE "L" IN
        /\ \A c \in 1..Len(clients) : clients[c].eye = eye
        /\ (IF config.use_right THEN left_client ELSE right_client) = 0
        /\ lastFrame.kind # "none" => EyeOf(lastFrame) = eye

\* a single-eye session whose scan found both eyes has connected, and a send
\* has written a frame
C20_Witness ==
    /\ SingleEye
    /\ \E e \in ended :
          e.kind = "connect" /\ e.how = "True" /\ e.found = {"L", "R"}
    /\ lastFrame.upd # 0
    /\ Len(clients) > 0

\* 2^n
RECURSIVE Pow2(_)
Pow2(n) == IF n = 0 THEN 1 ELSE 2 * Pow2(n - 1)

\* the bit-at-a-time CRC: a 16-bit register; each message bit, the high bit
\* of a byte first, is compared with the bit shifted out of the register, and
\* the polynomial is added when they differ: the n low bits of byte ...
RECURSIVE Crc16Bits(_, _, _)
Crc16Bits(reg, byte, n) ==
    IF n = 0 THEN reg
    ELSE LET bit == (byte \div Pow2(n - 1)) % 2
             out == reg \div 32768
             shifted == (reg * 2) % 65536
         IN Crc16Bits(IF out # bit THEN Xor(shifted, 4129) ELSE shifted, byte, n - 1)

\* ... and the bytes of a message
RECURSIVE Crc16Span(_, _, _, _)
Crc16Span(reg, data, lo, hi) ==
    IF lo > hi THEN reg
    ELSE IF lo = hi THEN Crc16Bits(reg, data[lo], 8)
    ELSE LET first == Crc16Span(reg, data, lo, (lo + hi) \div 2)
         IN IF first >= 0 THEN Crc16Span(first, data, (lo + hi) \div 2 + 1, hi)
            ELSE first
Crc16Register(reg, data) == Crc16Span(reg, data, 1, Len(data))

\* C27: crc16_ccitt is a function of its input with a result in 0..0xFFFF,
\* equal to the bit-at-a-time CRC with initial value 0xFFFF, polynomial 0x1021
\* and no final XOR; it is 0xFFFF for the empty input.
C27_Crc16 ==
    call.fn = "crc16_ccitt"
        => /\ call.out \in 0..65535
           /\ call.out = crc16_ccitt(call.arg)
           /\ call.out = Crc16Register(65535, call.arg)
           /\ call.arg = <<>> => call.out = 65535

\* crc16_ccitt was called with a byte string of full length and returned
\* something else than its initial value
C27_Witness ==
    /\ call.fn = "crc16_ccitt"
    /\ Len(call.arg) = MaxData
    /\ call.out # 65535

\* the value a protobuf reader gets from a varint: 7 bits a byte, low bits
\* first, as the two 16-bit halves (the high half is not truncated)
RECURSIVE DecodeVarint(_)
DecodeVarint(bytes) ==
    IF bytes = <<>> THEN <<0, 0>>
    ELSE LET rest == DecodeVarint(Tail(bytes))
         IN <<rest[1] * 128 + rest[2] \div 512,
              (rest[2] % 512) * 128 + (Head(bytes) % 128)>>

\* C25: encode_varint round-trips for every value of 0..2^32-1: decoding the
\* bytes it returns gives the value back; every byte but the last has the
\* continuation bit 0x80 set and the last has it clear.
C25_VarintRoundTrip ==
    call.fn = "encode_varint"
        => /\ Len(call.out) >= 1
           /\ DecodeVarint(call.out) = call.arg
           /\ \A i \in 1..Len(call.out) :
                 /\ call.out[i] \in 0..255
                 /\ (i < Len(call.out)) = (call.out[i] >= 128)

\* a call on 2^32-1, which takes five bytes
C25_Witness ==
    /\ call.fn = "encode_varint"
    /\ call.arg = <<65535, 65535>>
    /\ call.out = <<255, 255, 255, 255, 15>>

\* the table entry derived bit by bit, most significant bit first: from
\* i << 24, eight shifts to the left, the polynomial 0x1EDC6F41 XORed in when
\* the bit shifted out is 1, kept to 32 bits
RECURSIVE Crc32cEntry(_, _)
Crc32cEntry(v, n) ==
    IF n = 0 THEN v
    ELSE Crc32cEntry(IF v[1] >= 32768 THEN Xor32(Shl1(v), <<7900, 28481>>)
                                      ELSE Shl1(v), n - 1)

\* C26: every entry CRC32C_TABLE[i], i in 0..255, equals the MSB-first
\* (non-reflected) derivation with polynomial 0x1EDC6F41.
C26_TableDerived ==
    call.fn = "CRC32C_TABLE"
        => call.out = Crc32cEntry(<<call.arg[1] * 256, 0>>, 8)

\* the last entry of the table has been looked up
C26_Witness ==
    /\ call.fn = "CRC32C_TABLE"
    /\ call.arg = <<255>>
    /\ call.out = <<35530, 48821>>

\* the checksum a receiver rebuilds from the checksum field and the extra
\* byte: the extra byte is bits 24..31, the field's upper 24 bits are bits 0..23
Rebuilt(fields) ==
    <<fields[3] * 256 + fields[2][1] \div 256,
      (fields[2][1] % 256) * 256 + fields[2][2] \div 256>>

\* the three values fit fields of 32, 32 and 8 bits
FieldsFit(fields) ==
    /\ fields[1][1] \in 0..65535 /\ fields[1][2] \in 0..65535
    /\ fields[2][1] \in 0..65535 /\ fields[2][2] \in 0..65535
    /\ fields[3] \in 0..255

\* C28: calc_file_check_fields returns (len * 256, (crc << 8) & 0xFFFFFFFF,
\* (crc >> 24) & 0xFF): the size is the length times 256, the checksum field
\* and the extra byte together give the CRC back exactly, and for a length
\* below 2^24 the three values fit their 32-bit, 32-bit and 8-bit fields.
C28_FileCheckFields ==
    /\ call.fn = "calc_file_check_fields"
           => /\ call.out[1] = <<0, Len(call.arg) * 256>>
              /\ Rebuilt(call.out) = calc_crc32c(call.arg)
              /\ FieldsFit(call.out)
    /\ call.fn = "file_check_fields"
           => /\ call.out[1][1] * 256 + call.out[1][2] \div 256 = call.arg[1]
              /\ call.out[1][2] % 256 = 0
              /\ Rebuilt(call.out) = call.arg[2]
              /\ call.arg[1] < 16777216 => FieldsFit(call.out)

\* the fields of the longest data that fits, with a checksum of all ones
C28_Witness ==
    /\ call.fn = "file_check_fields"
    /\ call.arg = <<16777215, <<65535, 65535>>>>
    /\ call.out = <<<<65535, 65280>>, <<65535, 65280>>, 255>>

\* the calls that write frames to the glasses
FrameCalls == {"authenticate", "send_notification", "send_teleprompter", "send_evenai"}

\* a frame as the claim describes it: 0xAA 0x21 first, the length byte is the
\* payload's length plus 2, and the last two bytes are the CRC-16/CCITT of the
\* payload (what lies between the 8-byte header and the CRC), low byte first
WellFormed(f) ==
    /\ Len(f) >= 10
    /\ f[1] = 170 /\ f[2] = 33
    /\ f[4] = (Len(f) - 10) + 2
    /\ LET crc == Crc16Register(65535, SubSeq(f, 9, Len(f) - 2))
       IN f[Len(f) - 1] = crc % 256 /\ f[Len(f)] = crc \div 256

\* C21: every frame written to the glasses (the 7 authentication packets,
\* FILE_CHECK, START, DATA, END, the heartbeat, the teleprompter and Even-AI
\* frames) starts with 0xAA 0x21, carries len(payload) + 2 in its length byte
\* and ends with the CRC-16/CCITT of the payload, low byte first.
C21_FramesWellFormed ==
    call.fn \in FrameCalls
        => \A i \in 1..Len(call.out.frames) : WellFormed(call.out.frames[i])

\* C22: for every payload p a caller passes (REPLY text, teleprompter pages,
\* FILE_CHECK and DATA payloads), whatever its length, build_packet returns a
\* frame whose length field (header byte 3) is len(p) + 2.
C22_LengthField ==
    call.fn = "build_packet"
        => /\ ~call.out.raised
           /\ call.out.bytes[4] = Len(call.arg) + 2

\* the payloads of frames, one after the other
RECURSIVE Payloads(_)
Payloads(frames) ==
    IF frames = <<>> THEN <<>>
    ELSE SubSeq(Head(frames), 9, Len(Head(frames)) - 2) \o Payloads(Tail(frames))

\* C23: for a JSON byte string of any length L > 0 the DATA stage writes
\* exactly ceil(L / 234) frames, each with at most 234 payload bytes, with
\* fragmentIndex 1, 2, ..., N in write order and totalFragments N in every
\* frame, and the payloads in write order make up the JSON bytes.
C23_DataChunks ==
    call.fn = "DATA"
        => LET L == call.arg[1]
               N == (L + 233) \div 234
               frames == call.out.frames
           IN /\ Len(frames) = N
              /\ \A i \in 1..Len(frames) :
                    /\ Len(frames[i]) - 10 <= 234
                    /\ frames[i][5] = N
                    /\ frames[i][6] = i
              /\ Payloads(frames) = JsonBytes(L)

\* the number of lines of a page: its newline characters, each ending a line
RECURSIVE Newlines(_)
Newlines(page) ==
    IF page = <<>> THEN 0
    ELSE (IF Head(page) = "\n" THEN 1 ELSE 0) + Newlines(Tail(page))

\* C24: for every text and every lines_per_page >= 1, format_teleprompter_text
\* returns at least 14 pages, and every page consists of exactly
\* lines_per_page lines.
C24_PagesOfLines ==
    call.fn = "format_teleprompter_text"
        => /\ Len(call.out) >= 14
           /\ \A k \in 1..Len(call.out) :
                 /\ call.out[k][Len(call.out[k])] = "\n"
                 /\ Newlines(call.out[k]) = call.arg[3]

\* a text that fills more than 14 pages, the last of them not full
C24_Witness ==
    /\ call.fn = "format_teleprompter_text"
    /\ call.arg[2] = 1 /\ call.arg[3] = 2
    /\ Len(call.out) = 15

\* the memory of the last store_memory call on memory_id that returned, within
\* the first n calls of the history; NoMemory when there is none
RECURSIVE LastStored(_, _)
LastStored(n, memory_id) ==
    IF n = 0 THEN NoMemory
    ELSE IF /\ history[n].op = "store_memory"
            /\ history[n].memory_id = memory_id
            /\ history[n].result = "ok"
         THEN history[n].memory
         ELSE LastStored(n - 1, memory_id)

\* C29: after any sequence of store_memory calls, get_memory_by_id(id) returns
\* the memory most recently stored under id, with the same memory_id and
\* text, and None for an id that was never stored.
C29_GetReturnsLastStored ==
    \A n \in 1..Len(history) :
        history[n].op = "get_memory_by_id"
            => LET last == LastStored(n - 1, history[n].memory_id)
               IN /\ history[n].result = "ok"
                  /\ (last = NoMemory) = (history[n].returned = NoMemory)
                  /\ history[n].returned.memory_id = last.memory_id
                  /\ history[n].returned.text = last.text

\* a memory stored, another stored under the same id, and the second returned
C29_Witness ==
    /\ Len(history) = 3
    /\ history[1].op = "store_memory" /\ history[1].result = "ok"
    /\ history[2].op = "store_memory" /\ history[2].result = "ok"
    /\ history[2].memory_id = history[1].memory_id
    /\ history[2].memory.text # history[1].memory.text
    /\ history[3].op = "get_memory_by_id"
    /\ history[3].memory_id = history[1].memory_id
    /\ history[3].returned.text = history[2].memory.text

\* C30: store_memory on a memory whose embedding is None or has not exactly
\* 384 entries raises ValueError before anything is written: the vector
\* store and the metadata table stay as they were, and get_memory_by_id
\* returns for every id what it returned before.
C30_RejectedBeforeWrite ==
    [][\A e \in {history'[Len(history')]} :
          (/\ Len(history') = Len(history) + 1
           /\ e.op = "store_memory"
           /\ e.memory.embedding # 384)
              => /\ e.result = "ValueError"
                 /\ qdrant' = qdrant
                 /\ db' = db
                 /\ \A id \in MemoryIds :
                       get_memory_by_id(db', id) = get_memory_by_id(db, id)]_vars

\* a memory is stored, then one without an embedding is refused under its id
C30_Witness ==
    /\ Len(history) = 2
    /\ history[1].op = "store_memory" /\ history[1].result = "ok"
    /\ history[2].op = "store_memory" /\ history[2].result = "ValueError"
    /\ history[2].memory_id = history[1].memory_id
    /\ history[2].memory.embedding = -1
    /\ qdrant # {} /\ db # {}

\* the text lines of a page: what lies between the newlines, the page's
\* closing " \n" set aside
PageLines(page) == split_lines(SubSeq(page, 1, Len(page) - 2))

\* C31: every text line inside a page returned by format_teleprompter_text is
\* at most chars_per_line characters wide, for every text, a text with a
\* single word longer than chars_per_line included.
C31_LinesFit ==
    call.fn = "format_teleprompter_text"
        => \A k \in 1..Len(call.out) :
              LET lines == PageLines(call.out[k])
              IN  \A j \in 1..Len(lines) : Len(lines[j]) <= call.arg[2]

\* the message inside the text an update() call has sent: the text of
\* send_teleprompter with its title and the empty line after it set aside
SentMessage ==
    IF call.arg[1] = "teleprompter"
    THEN SubSeq(call.out.text,
                Len(update_title(call.arg[2], call.arg[5])) + 3,
                Len(call.out.text))
    ELSE call.out.text

\* C32: the text update() sends follows the display format in every mode: with
\* "original" only the original text, with "translated" only the translated
\* text (no character of the original, also when the translation is empty),
\* with "both" the original followed by the translation.
C32_FollowsFormat ==
    call.fn = "update"
        => LET original == call.arg[3]
               translated == call.arg[4]
               sent == SentMessage
           IN  CASE call.arg[2] = "original" -> sent = original
                 [] call.arg[2] = "translated" -> sent = translated
                 [] OTHER ->
                      /\ Len(sent) >= Len(original) + Len(translated)
                      /\ SubSeq(sent, 1, Len(original)) = original
                      /\ SubSeq(sent, Len(sent) - Len(translated) + 1, Len(sent))
                            = translated

\* C33: update() called while isConnected is false (before start(), while
\* connect() is scanning or authenticating, after a failed connect(), after
\* disconnect() or stop()) schedules nothing: no step taken while the session
\* is not connected puts a send on the run loop or uses up an update, so no
\* frame is written for that call and seq, msg_id and the latches are left to
\* the coroutines already on the loop.
C33_NothingWhenDisconnected ==
    [][~connected
          => /\ stats'.nSched = stats.nSched
             /\ budget'.updates = budget.updates
             /\ \A t \in tasks' :
                   t.kind \in SendKinds => \E u \in tasks : u.id = t.id]_vars

\* update() can be called, on a running loop, in a session that had sent and
\* that disconnect() has closed
C33_Witness ==
    /\ ~connected
    /\ loop = "running"
    /\ budget.updates > 0 /\ Cardinality(Sends) < budget.inflight
    /\ stats.nSched > 0
    /\ \E e \in ended : e.kind = "disconnect"

\* C34: whenever connect() returns False, no BLE client of the session is left
\* with an open connection: in the step in which a connect() ends by
\* returning False, in a single-eye mode as in notification mode, every
\* client created so far is closed.
C34_ClosedAfterFalse ==
    [][(\E e \in ended' \ ended : e.kind = "connect" /\ e.how = "False")
          => \A c \in DOMAIN clients' : ~clients'[c].open]_vars

\* C35: send_notification neither reads nor changes seq, msg_id or the
\* latches: its frames carry the fixed header seq values 0x10 (FILE_CHECK),
\* 0x49 (START and every DATA) and 0xDA (END), and in a session of mode
\* notification, after any number of updates, seq is still 0x08, msg_id still
\* 0x14 and both latches are false.
C35_NotificationFixed ==
    /\ lastFrame.kind = "FILE_CHECK" => lastFrame.seq = 16
    /\ lastFrame.kind \in {"START", "DATA"} => lastFrame.seq = 73
    /\ lastFrame.kind = "END" => lastFrame.seq = 218
    /\ config.mode = "notification"
          => /\ seq = 8 /\ msg_id = 20
             /\ ~teleprompter_initialized /\ ~evenai_initialized

\* a second notification send has written its END frame after a first one
\* had returned
C35_Witness ==
    /\ config.mode = "notification"
    /\ lastFrame.kind = "END"
    /\ \E e \in ended :
          /\ e.kind = "notification" /\ e.how = "return"
          /\ e.out = NotificationFrames(e.n)
          /\ e.id # lastFrame.upd

\* C36: connect() is idempotent on a connected session: a connect() that
\* begins while isConnected is true ends in that step by returning True; it
\* does not scan, creates and opens no client, writes no frame, and leaves
\* isConnected, the client handles, the counters and the latches as they are.
C36_ConnectIdempotent ==
    [][\A t \in tasks :
          (t.kind = "connect" /\ t.pc = "new" /\ connected /\ t \notin tasks')
              => /\ \A u \in tasks' : u.id # t.id
                 /\ \E e \in ended' \ ended : e.id = t.id /\ e.how = "True"
                 /\ UNCHANGED <<handles, connected, counters, clients, wire>>]_vars

\* a connect() called on the connected session has returned True without a
\* scan, the session having sent before
C36_Witness ==
    /\ connected
    /\ stats.nSched > 0
    /\ \E e \in ended : e.kind = "connect" /\ e.how = "True" /\ e.pc = "new"

\* C37: the vector store and the metadata table stay consistent: after every
\* store_memory, returned or raised, whatever step failed, the point of a
\* memory id is in Qdrant exactly when the row of that id is in SQLite.
C37_StoresConsistent ==
    \A memory_id \in MemoryIds :
        (\E p \in qdrant : p.memory_id = memory_id)
            <=> (\E r \in db : r.memory_id = memory_id)

====
